---------------------------- MODULE Spec2Model ----------------------------
(***************************************************************************)
(* SEM Campaign Builder: the keyword pipeline                               *)
(*   deduplicate/filter -> score -> classify -> CPC range -> allocate,     *)
(*   the shopping bid engine and the asset group themes.                   *)
(*                                                                         *)
(* Conventions of the model                                                *)
(*   - text is a sequence of one-character strings, so that lower(),       *)
(*     strip() and the substring test `w in t` are computed, not assumed;  *)
(*   - money is an integer number of cents (1.50 is 150), budgets too;     *)
(*   - a relevance score is an exact fraction [n, d] with d > 0;           *)
(*   - a Python exception is an explicit outcome ("raised"), never a TLC   *)
(*     evaluation error.                                                   *)
(* Arithmetic is exact, with one exception: the ad group ROAS score is the *)
(* double that the sum of its four components rounds to (RoasSumUlps),     *)
(* because the order of the groups depends on it. Elsewhere binary         *)
(* floating point rounding (of the order of 1e-14) is not modelled.        *)
(***************************************************************************)
EXTENDS Integers, Sequences, FiniteSets, TLC

VARIABLES
    \* SearchCampaignGenerator.create_search_campaign
    ad_groups, budget, alloc_pc, prioritized_groups, alloc_i, running_spend,
    optimized_groups, campaign,
    \* HuggingFaceProcessor (classification)
    zero_shot, cls_keywords, max_groups, cls_pc, cls_buckets, cls_i,
    cls_result, cls_strategy, cls_calls, model_invoked, cls_failed_once,
    \* HuggingFaceProcessor._calculate_relevance_scores
    sc_keywords, sc_pc, sc_result, sc_perm_result, sc_perm,
    \* SEMCampaignBuilder._consolidate_and_filter_keywords / _filter_keywords
    raw_keywords, dd_variant, min_volume, dd_pc, unique_keywords, dd_once,
    dd_twice,
    \* ShoppingCampaignGenerator.suggest_product_bids
    product_keywords, shopping_budget, target_cpa, tie_up, bid_pc, suggestions,
    total_suggested_spend,
    \* KeywordResearcher._create_keyword_data_with_estimates
    est_keyword, est_pc, est_first, est_second,
    \* HuggingFaceProcessor.process_raw_keywords
    pr_raw, pr_min_volume, pr_pc, pr_result,
    \* HuggingFaceProcessor._create_enhanced_rule_based_groups
    rb_keywords, rb_pc, rb_groups,
    \* PMaxCampaignGenerator.create_asset_group_themes
    pm_keywords, pm_top_n, pm_pc, themes

allocVars == <<ad_groups, budget, alloc_pc, prioritized_groups, alloc_i,
               running_spend, optimized_groups, campaign>>
clsVars == <<zero_shot, cls_keywords, max_groups, cls_pc, cls_buckets, cls_i,
             cls_result, cls_strategy, cls_calls, model_invoked,
             cls_failed_once>>
scVars == <<sc_keywords, sc_pc, sc_result, sc_perm_result, sc_perm>>
ddVars == <<raw_keywords, dd_variant, min_volume, dd_pc, unique_keywords,
            dd_once, dd_twice>>
bidVars == <<product_keywords, shopping_budget, target_cpa, tie_up, bid_pc,
             suggestions, total_suggested_spend>>
estVars == <<est_keyword, est_pc, est_first, est_second>>
prVars == <<pr_raw, pr_min_volume, pr_pc, pr_result>>
rbVars == <<rb_keywords, rb_pc, rb_groups>>
pmVars == <<pm_keywords, pm_top_n, pm_pc, themes>>
vars == <<allocVars, clsVars, scVars, ddVars, bidVars, estVars, prVars,
          rbVars, pmVars>>

\* What an operation of one component leaves alone.
exceptAlloc == <<clsVars, scVars, ddVars, bidVars, estVars, prVars, rbVars,
                 pmVars>>
exceptCls == <<allocVars, scVars, ddVars, bidVars, estVars, prVars, rbVars,
               pmVars>>
exceptSc == <<allocVars, clsVars, ddVars, bidVars, estVars, prVars, rbVars,
              pmVars>>
exceptDd == <<allocVars, clsVars, scVars, bidVars, estVars, prVars, rbVars,
              pmVars>>
exceptBid == <<allocVars, clsVars, scVars, ddVars, estVars, prVars, rbVars,
               pmVars>>
exceptEst == <<allocVars, clsVars, scVars, ddVars, bidVars, prVars, rbVars,
               pmVars>>
exceptPr == <<allocVars, clsVars, scVars, ddVars, bidVars, estVars, rbVars,
              pmVars>>
exceptRb == <<allocVars, clsVars, scVars, ddVars, bidVars, estVars, prVars,
              pmVars>>
exceptPm == <<allocVars, clsVars, scVars, ddVars, bidVars, estVars, prVars,
              rbVars>>

----------------------------------------------------------------------------
(* Generic helpers *)

Min(a, b) == IF a <= b THEN a ELSE b
Max(a, b) == IF a >= b THEN a ELSE b

\* Python int(x) of a quotient a / b with b > 0: truncation toward zero.
TruncDiv(a, b) == IF a >= 0 THEN a \div b ELSE -((-a) \div b)

\* All sequences over S of length 0..n.
SeqsUpTo(S, n) == UNION {[1..k -> S] : k \in 0..n}

\* Exact fractions.
Frac(n, d) == [n |-> n, d |-> d]
FracLess(a, b) == a.n * b.d < b.n * a.d
FracLeq(a, b) == a.n * b.d <= b.n * a.d
FracEq(a, b) == a.n * b.d = b.n * a.d

RECURSIVE Gcd(_, _)
Gcd(a, b) == IF b = 0 THEN a ELSE Gcd(b, a % b)

\* The same value in lowest terms (d > 0).
Reduced(f) ==
    LET g == Gcd(IF f.n < 0 THEN -f.n ELSE f.n, f.d)
    IN  Frac(f.n \div g, f.d \div g)

----------------------------------------------------------------------------
(* Text: str.lower(), str.strip(), `w in t`, str.split() *)

Lower(c) ==
    CASE c = "A" -> "a" [] c = "B" -> "b" [] c = "C" -> "c" [] c = "D" -> "d"
      [] c = "E" -> "e" [] c = "F" -> "f" [] c = "G" -> "g" [] c = "H" -> "h"
      [] c = "I" -> "i" [] c = "J" -> "j" [] c = "K" -> "k" [] c = "L" -> "l"
      [] c = "M" -> "m" [] c = "N" -> "n" [] c = "O" -> "o" [] c = "P" -> "p"
      [] c = "Q" -> "q" [] c = "R" -> "r" [] c = "S" -> "s" [] c = "T" -> "t"
      [] c = "U" -> "u" [] c = "V" -> "v" [] c = "W" -> "w" [] c = "X" -> "x"
      [] c = "Y" -> "y" [] c = "Z" -> "z" [] OTHER -> c

LowerStr(t) == [i \in 1..Len(t) |-> Lower(t[i])]

RECURSIVE LStrip(_)
LStrip(t) == IF t # <<>> /\ Head(t) = " " THEN LStrip(Tail(t)) ELSE t

RECURSIVE RStrip(_)
RStrip(t) ==
    IF t # <<>> /\ t[Len(t)] = " " THEN RStrip(SubSeq(t, 1, Len(t) - 1)) ELSE t

Strip(t) == RStrip(LStrip(t))

\* Python `w in t` for strings.
Contains(t, w) ==
    \E i \in 1..(Len(t) - Len(w) + 1) : SubSeq(t, i, i + Len(w) - 1) = w

\* any(w in t for w in ws)
ContainsAny(t, ws) == \E w \in ws : Contains(t, w)

\* len(t.split()): the number of maximal runs of non-space characters.
WordCount(t) ==
    Cardinality({i \in 1..Len(t) : t[i] # " " /\ (i = 1 \/ t[i - 1] = " ")})

----------------------------------------------------------------------------
(* src/models/keyword.py: Keyword, AdGroup, SearchCampaign *)

\* Keyword(term, metrics(average_monthly_searches, top_of_page_bid_low,
\* top_of_page_bid_high, competition_level), relevance_score)
Keyword(term, vol, low, high, comp, score) ==
    [term |-> term, vol |-> vol, low |-> low, high |-> high, comp |-> comp,
     score |-> score]

AdGroup(name, intent, kws, range) ==
    [name |-> name, intent_category |-> intent, keywords |-> kws,
     suggested_cpc_range |-> range]

SearchCampaign(groups, b) == [ad_groups |-> groups, total_budget |-> b]

\* sorted(keywords, key=relevance_score, reverse=True): stable, descending.
InsertByRelevance(acc, k) ==
    LET later == {i \in 1..Len(acc) : FracLess(acc[i].score, k.score)}
        pos == IF later = {} THEN Len(acc) + 1
               ELSE CHOOSE i \in later : \A j \in later : i <= j
    IN  SubSeq(acc, 1, pos - 1) \o <<k>> \o SubSeq(acc, pos, Len(acc))

RECURSIVE SortByRelevanceFrom(_, _)
SortByRelevanceFrom(acc, rest) ==
    IF rest = <<>> THEN acc
    ELSE SortByRelevanceFrom(InsertByRelevance(acc, Head(rest)), Tail(rest))

SortByRelevance(kws) == SortByRelevanceFrom(<<>>, kws)

----------------------------------------------------------------------------
(* Ad group names and intent categories of the classifier *)
(* (huggingface_processor.py: group_meta, groups) *)

N_Brand == <<"B","r","a","n","d"," ","T","e","r","m","s">>
N_BrandZS == <<"B","r","a","n","d"," ","&"," ","C","o","m","p","a","n","y"," ","T","e","r","m","s">>
N_Location == <<"L","o","c","a","t","i","o","n","-","b","a","s","e","d"," ","Q","u","e","r","i","e","s">>
N_CoreBI == <<"C","o","r","e"," ","B","u","s","i","n","e","s","s"," ","I","n","t","e","l","l","i","g","e","n","c","e">>
N_Commercial == <<"C","o","m","m","e","r","c","i","a","l"," ","I","n","t","e","n","t"," ","H","i","g","h","-","V","a","l","u","e">>
N_DataAnalytics == <<"D","a","t","a"," ","A","n","a","l","y","t","i","c","s"," ","S","o","l","u","t","i","o","n","s">>
N_Enterprise == <<"E","n","t","e","r","p","r","i","s","e"," ","&"," ","B","2","B"," ","F","o","c","u","s">>
N_LongTail == <<"L","o","n","g","-","T","a","i","l"," ","O","p","p","o","r","t","u","n","i","t","i","e","s">>
N_Competitive == <<"C","o","m","p","e","t","i","t","i","v","e"," ","A","n","a","l","y","s","i","s">>
N_Technical == <<"T","e","c","h","n","i","c","a","l"," ","F","e","a","t","u","r","e","s">>

I_Brand == <<"B","r","a","n","d"," ","T","e","r","m","s">>
I_Location == <<"L","o","c","a","t","i","o","n","-","b","a","s","e","d"," ","Q","u","e","r","i","e","s">>
I_Category == <<"C","a","t","e","g","o","r","y"," ","T","e","r","m","s">>
I_Commercial == <<"C","o","m","m","e","r","c","i","a","l"," ","I","n","t","e","n","t">>
I_Product == <<"P","r","o","d","u","c","t","-","s","p","e","c","i","f","i","c"," ","T","e","r","m","s">>
I_LongTail == <<"L","o","n","g","-","T","a","i","l"," ","I","n","f","o","r","m","a","t","i","o","n","a","l"," ","Q","u","e","r","i","e","s">>
I_Competitor == <<"C","o","m","p","e","t","i","t","o","r"," ","T","e","r","m","s">>

----------------------------------------------------------------------------
(* SearchCampaignGenerator (search_campaign_generator.py) *)

OptimizedSuffix == <<" ","(","O","p","t","i","m","i","z","e","d",")">>

\* avg_group_cpc * keyword_count * 30, in cents:
\* ((low + high) / 2) * count * 30 = (low + high) * count * 15.
GroupSpend(ag) ==
    (ag.suggested_cpc_range[1] + ag.suggested_cpc_range[2])
        * Len(ag.keywords) * 15

RECURSIVE TotalEstimatedSpend(_)
TotalEstimatedSpend(groups) ==
    IF groups = <<>> THEN 0
    ELSE GroupSpend(Head(groups)) + TotalEstimatedSpend(Tail(groups))

\* avg_group_cpc * 30 in cents: the divisor of max_keywords.
KeywordCost(ag) ==
    (ag.suggested_cpc_range[1] + ag.suggested_cpc_range[2]) * 15

MaxKeywordsCeil(remaining_budget, ag) ==
    TruncDiv(remaining_budget, KeywordCost(ag)) + 1

\* max_keywords = int(remaining_budget / (avg_group_cpc * 30)); the caller
\* has checked that the divisor is not zero.
MaxKeywords(remaining_budget, ag) ==
    TruncDiv(remaining_budget, KeywordCost(ag))

TopKeywordsUnsorted(ag, n) == SubSeq(ag.keywords, 1, Min(n, Len(ag.keywords)))

\* sorted(ag.keywords, key=relevance, reverse=True)[:max_keywords]
TopKeywords(ag, n) ==
    LET s == SortByRelevance(ag.keywords) IN SubSeq(s, 1, Min(n, Len(s)))

SmallerAdGroup(ag, n) ==
    AdGroup(ag.name \o OptimizedSuffix, ag.intent_category,
            TopKeywords(ag, n), ag.suggested_cpc_range)

\* The components of _calculate_ad_group_roas_score, in hundredths (0.4 is
\* 40).
IntentScore(ag) ==
    LET intent == LowerStr(ag.intent_category) IN
    IF Contains(intent, <<"b","r","a","n","d">>) THEN 40
    ELSE IF Contains(intent, <<"c","o","m","m","e","r","c","i","a","l">>) \/ Contains(intent, <<"c","o","m","p","e","t","i","t","o","r">>)
         THEN 35
    ELSE IF Contains(intent, <<"c","a","t","e","g","o","r","y">>) \/ Contains(intent, <<"p","r","o","d","u","c","t">>)
         THEN 30
    ELSE IF Contains(intent, <<"l","o","c","a","t","i","o","n">>) THEN 25
    ELSE 15

\* IntentScore on the intent categories the classifier assigns, evaluated
\* once.
IntentScoreOf ==
    [c \in {I_Brand, I_Location, I_Category, I_Commercial, I_Product,
            I_LongTail, I_Competitor} |-> IntentScore([intent_category |-> c])]

RECURSIVE TotalVolume(_)
TotalVolume(kws) ==
    IF kws = <<>> THEN 0 ELSE Head(kws).vol + TotalVolume(Tail(kws))

VolumeTierScore(ag) ==
    LET total_volume == TotalVolume(ag.keywords) IN
    IF total_volume >= 100000 THEN 30
    ELSE IF total_volume >= 50000 THEN 25
    ELSE IF total_volume >= 10000 THEN 20
    ELSE 10

\* avg_cpc <= 1.0 is low + high <= 200 cents.
EfficiencyScore(ag) ==
    LET twice == ag.suggested_cpc_range[1] + ag.suggested_cpc_range[2] IN
    IF twice <= 200 THEN 20
    ELSE IF twice <= 400 THEN 15
    ELSE IF twice <= 800 THEN 10
    ELSE 5

DiversificationScore(ag) ==
    LET keyword_count == Len(ag.keywords) IN
    IF keyword_count >= 20 THEN 10
    ELSE IF keyword_count >= 10 THEN 8
    ELSE IF keyword_count >= 5 THEN 5
    ELSE 2

\* The tiers of the four components, in hundredths, highest first.
IntentTiers == <<40, 35, 30, 25, 15>>

VolumeTiers == <<30, 25, 20, 10>>

EfficiencyTiers == <<20, 15, 10, 5>>

DiversificationTiers == <<10, 8, 5, 2>>

TierIndex(tiers, v) == CHOOSE i \in 1..Len(tiers) : tiers[i] = v

\* total_score = intent_score + volume_score + efficiency_score +
\* diversification_score is a sum of doubles, added left to right. For each
\* combination of tiers (intent slowest, diversification fastest) the
\* table gives the distance, in half units in the last place, of that sum
\* from the double nearest to the decimal sum: 0.35 + 0.1 + 0.2 + 0.02 is
\* 0.6699999999999999 (-2) while 0.4 + 0.1 + 0.15 + 0.02 is 0.67 (0).
RoasSumUlps ==
    <<
      -1, -2,  0, -2,  0, -2,  0,  0, -2, -2,  0,  0,  0,  0,  0,  0,
       2,  0,  2,  2,  0,  0,  2,  2,  0,  0,  0,  0,  0,  0,  2,  2,
       0,  0,  2,  2,  2,  2,  2,  2,  0,  0,  2,  2,  2,  2,  4,  2,
      -2, -2,  0,  0,  0,  0,  2,  0,  0, -2,  0,  0,  0,  0,  2,  2,
      -2, -4, -2, -2, -2, -2,  0,  0, -2, -2, -2, -2, -2, -2,  0,  0,
       0,  0,  2,  2,  0,  0,  0,  0, -2, -2,  0,  0,  0,  0,  2,  0,
       0,  0,  0,  0,  0,  0,  2,  2,  0,  0,  2,  0,  2,  0,  2,  2,
      -2, -2,  0, -2,  0, -2,  0,  0, -2, -2,  0,  0,  0,  0, -2, -2,
       0,  0,  2,  2,  0,  0,  0,  0, -2, -2,  0,  0,  0,  0,  2,  0,
       0,  0,  0,  0,  0,  0,  2,  2,  0,  0,  2,  0,  2,  0,  2,  2,
      -2, -2,  0,  0,  0,  0,  2,  0,  0, -2,  0,  0,  0,  0,  2,  2,
       2,  0,  2,  2,  0,  0,  2,  2,  0,  0,  0,  0,  0,  0,  0,  2,
       0,  0,  0,  0,  0,  0,  2,  2,  0,  0,  2,  0,  2,  0,  2,  2,
      -2, -2,  0,  0,  0,  0,  2,  0,  0, -2,  0,  0,  0,  0,  2,  2,
       0,  0,  2,  0,  0, -2,  0,  0,  0,  0,  2,  2,  0,  0,  0,  0,
       0,  0,  2,  2,  0,  0,  0,  0, -2, -2, -1,  0,  0,  0, -2,  0,
      -2, -2,  0, -2,  0, -2,  0,  0, -2, -2,  0,  0,  0,  0, -2, -2,
       2,  0,  2,  2,  0,  0,  2,  2,  0,  0,  0,  0,  0,  0,  0,  2,
       0,  0,  2,  2,  0,  0,  0,  0, -2, -2, -1,  0,  0,  0, -2,  0,
       0,  0,  0,  2,  0,  2,  0,  2, -2,  0, -2,  0,  0,  0,  0,  0
    >>

\* _calculate_ad_group_roas_score. The value is the double the code
\* returns, in sixteenths of a hundredth: 16 x the decimal sum in
\* hundredths plus the rounding distance of the sum, and min(total, 1.0).
AdGroupRoasScore(ag) ==
    IF ag.keywords = <<>> THEN 0
    ELSE LET i == IntentScoreOf[ag.intent_category]
             v == VolumeTierScore(ag)
             e == EfficiencyScore(ag)
             d == DiversificationScore(ag)
             index == ((TierIndex(IntentTiers, i) - 1) * 4
                          + TierIndex(VolumeTiers, v) - 1) * 16
                      + (TierIndex(EfficiencyTiers, e) - 1) * 4
                      + TierIndex(DiversificationTiers, d)
         IN  Min(16 * (i + v + e + d) + RoasSumUlps[index], 1600)

InsertByRoasTiesFirst(acc, ag) ==
    LET later == {i \in 1..Len(acc) :
                     AdGroupRoasScore(acc[i]) <= AdGroupRoasScore(ag)}
        pos == IF later = {} THEN Len(acc) + 1
               ELSE CHOOSE i \in later : \A j \in later : i <= j
    IN  SubSeq(acc, 1, pos - 1) \o <<ag>> \o SubSeq(acc, pos, Len(acc))

\* scored_ad_groups.sort(key=score, reverse=True): stable, descending.
InsertByRoas(acc, ag) ==
    LET later == {i \in 1..Len(acc) :
                     AdGroupRoasScore(acc[i]) < AdGroupRoasScore(ag)}
        pos == IF later = {} THEN Len(acc) + 1
               ELSE CHOOSE i \in later : \A j \in later : i <= j
    IN  SubSeq(acc, 1, pos - 1) \o <<ag>> \o SubSeq(acc, pos, Len(acc))

RECURSIVE PrioritizeFrom(_, _)
PrioritizeFrom(acc, rest) ==
    IF rest = <<>> THEN acc
    ELSE PrioritizeFrom(InsertByRoas(acc, Head(rest)), Tail(rest))

PrioritizeAdGroups(groups) == PrioritizeFrom(<<>>, groups)

\* create_search_campaign calls _optimize_ad_groups_for_budget: the early
\* returns (no groups; total estimated spend within budget) or the start of
\* the selection loop.
OptimizeStart ==
    /\ alloc_pc = "start"
    /\ IF ad_groups = <<>> \/ TotalEstimatedSpend(ad_groups) <= budget
       THEN /\ optimized_groups' = ad_groups
            /\ alloc_pc' = "return"
            /\ UNCHANGED <<prioritized_groups, alloc_i, running_spend>>
       ELSE /\ prioritized_groups' = PrioritizeAdGroups(ad_groups)
            /\ optimized_groups' = <<>>
            /\ running_spend' = 0
            /\ alloc_i' = 1
            /\ alloc_pc' = "loop"
    /\ UNCHANGED <<ad_groups, budget, campaign>>
    /\ UNCHANGED exceptAlloc

LoopEndsAtLast(fits, i, n) == i = n

\* The `for ag in prioritized_groups` loop ends after iteration i of n when
\* the group did not fit (`break`) or the list is exhausted.
LoopEndsAfter(fits, i, n) == ~fits \/ i = n

\* One iteration of `for ag in prioritized_groups`.
OptimizeStep ==
    /\ alloc_pc = "loop"
    /\ alloc_i <= Len(prioritized_groups)
    /\ LET ag == prioritized_groups[alloc_i]
           remaining_budget == budget - running_spend
       IN  IF running_spend + GroupSpend(ag) <= budget
           THEN /\ optimized_groups' = Append(optimized_groups, ag)
                /\ running_spend' = running_spend + GroupSpend(ag)
                /\ alloc_i' = alloc_i + 1
                /\ alloc_pc' = IF LoopEndsAfter(TRUE, alloc_i, Len(prioritized_groups))
                               THEN "return" ELSE "loop"
           ELSE IF KeywordCost(ag) = 0
           THEN \* remaining_budget / (avg_group_cpc * 30): ZeroDivisionError
                /\ alloc_pc' = "raised"
                /\ UNCHANGED <<optimized_groups, running_spend, alloc_i>>
           ELSE /\ optimized_groups' =
                       IF MaxKeywords(remaining_budget, ag) > 0
                       THEN Append(optimized_groups,
                                   SmallerAdGroup(ag, MaxKeywords(remaining_budget, ag)))
                       ELSE optimized_groups
                /\ IF LoopEndsAfter(FALSE, alloc_i, Len(prioritized_groups))
                   THEN alloc_pc' = "return" /\ alloc_i' = alloc_i
                   ELSE alloc_pc' = "loop" /\ alloc_i' = alloc_i + 1
                /\ UNCHANGED running_spend
    /\ UNCHANGED <<ad_groups, budget, prioritized_groups, campaign>>
    /\ UNCHANGED exceptAlloc

\* campaign = SearchCampaign(ad_groups=optimized_ad_groups, ...)
CreateCampaign ==
    /\ alloc_pc = "return"
    /\ campaign' = SearchCampaign(optimized_groups, budget)
    /\ alloc_pc' = "done"
    /\ UNCHANGED <<ad_groups, budget, prioritized_groups, alloc_i,
                   running_spend, optimized_groups>>
    /\ UNCHANGED exceptAlloc

NextAlloc == OptimizeStart \/ OptimizeStep \/ CreateCampaign

----------------------------------------------------------------------------
(* HuggingFaceProcessor: classification (huggingface_processor.py) *)

\* The keywords the classifier is exercised on.
K_cubehq == Keyword(<<"c","u","b","e","h","q">>, 1200, 50, 200, "medium", Frac(80, 100))
K_compare == Keyword(<<"c","o","m","p","a","r","e"," ","b","i">>, 3000, 100, 300, "high", Frac(50, 100))
K_bip ==
    Keyword(<<"b","u","s","i","n","e","s","s"," ","i","n","t","e","l","l","i","g","e","n","c","e"," ","p","l","a","t","f","o","r","m">>, 8000, 150, 400, "medium",
            Frac(80, 100))
K_buy == Keyword(<<"b","u","y"," ","b","i"," ","s","o","f","t","w","a","r","e"," ","n","e","a","r"," ","m","e">>, 300, 75, 250, "high", Frac(60, 100))
K_kpi == Keyword(<<"k","p","i">>, 500, 0, 0, "low", Frac(40, 100))
K_okr == Keyword(<<"o","k","r">>, 0, 30, 90, "low", Frac(40, 100))

K_podium == Keyword(<<"p","o","d","i","u","m"," ","p","r","i","c","i","n","g">>, 900, 60, 180, "medium", Frac(50, 100))

ClsPool == {K_cubehq, K_compare, K_bip, K_buy, K_kpi, K_okr, K_podium}

\* Keywords for the rule chain alone: each rule as the first match, with
\* later rules matching too, and both sides of the volume thresholds.
RulePool ==
    {Keyword(<<"c","u","b","e","h","q"," ","p","r","i","c","i","n","g"," ","i","n"," ","m","u","m","b","a","i">>, 1500, 50, 150, "medium", Frac(1, 2)),
     Keyword(<<"a","n","a","l","y","t","i","c","s"," ","c","o","m","p","a","n","y"," ","i","n"," ","p","u","n","e">>, 1500, 50, 150, "medium", Frac(1, 2)),
     Keyword(<<"p","o","d","i","u","m"," ","p","r","i","c","i","n","g">>, 900, 50, 150, "medium", Frac(1, 2)),
     Keyword(<<"d","e","m","o"," ","p","r","i","c","i","n","g">>, 1500, 50, 150, "medium", Frac(1, 2)),
     Keyword(<<"b","u","s","i","n","e","s","s"," ","i","n","t","e","l","l","i","g","e","n","c","e"," ","v","s"," ","b","i","r","d","e","y","e">>, 3000, 50, 150, "high", Frac(1, 2)),
     Keyword(<<"d","a","s","h","b","o","a","r","d"," ","a","l","t","e","r","n","a","t","i","v","e">>, 1500, 50, 150, "medium", Frac(1, 2)),
     Keyword(<<"c","o","m","p","a","r","e"," ","o","k","r"," ","f","r","a","m","e","w","o","r","k","s"," ","t","o","d","a","y">>, 1500, 50, 150, "high", Frac(1, 2)),
     Keyword(<<"k","p","i">>, 999, 50, 150, "low", Frac(1, 2)),
     Keyword(<<"k","p","i">>, 1000, 50, 150, "low", Frac(1, 2)),
     Keyword(<<"k","p","i">>, 999, 50, 150, "medium", Frac(1, 2)),
     Keyword(<<"c","o","m","p","a","r","e"," ","o","k","r">>, 1500, 50, 150, "medium", Frac(1, 2)),
     Keyword(<<"o","k","r">>, 2001, 50, 150, "medium", Frac(1, 2)),
     Keyword(<<"o","k","r">>, 2000, 50, 150, "high", Frac(1, 2))}

\* Python round(x, 2) of the fraction num / den of cents (den > 0, num >= 0):
\* to the nearest cent, an exact tie to the even cent.
RoundCents(num, den) ==
    LET q == num \div den
        r == num % den
    IN  IF 2 * r < den THEN q
        ELSE IF 2 * r > den THEN q + 1
        ELSE IF q % 2 = 0 THEN q ELSE q + 1

RECURSIVE WeightedSum(_, _)
WeightedSum(kws, field) ==
    IF kws = <<>> THEN 0
    ELSE (IF field = "low" THEN Head(kws).low ELSE Head(kws).high)
             * Head(kws).vol
         + WeightedSum(Tail(kws), field)

GroupCpcRangeSwapped(kws) ==
    IF kws = <<>> \/ TotalVolume(kws) = 0 THEN <<50, 200>>
    ELSE <<RoundCents(WeightedSum(kws, "high"), TotalVolume(kws)),
           RoundCents(WeightedSum(kws, "low"), TotalVolume(kws))>>

\* _calculate_group_cpc_range: the volume-weighted mean of the bids, or the
\* default (0.5, 2.0) for no keywords or zero total volume.
GroupCpcRange(kws) ==
    IF kws = <<>> \/ TotalVolume(kws) = 0 THEN <<50, 200>>
    ELSE <<RoundCents(WeightedSum(kws, "low"), TotalVolume(kws)),
           RoundCents(WeightedSum(kws, "high"), TotalVolume(kws))>>

\* labels / group_meta of _create_zero_shot_groups, in dict order.
ZeroShotLabels ==
    <<N_BrandZS, N_CoreBI, N_Commercial, N_DataAnalytics, N_Enterprise,
      N_LongTail, N_Competitive, N_Technical>>

ZeroShotIntents ==
    <<I_Brand, I_Category, I_Commercial, I_Product, I_Category, I_LongTail,
      I_Competitor, I_Product>>

\* groups of _create_enhanced_rule_based_groups, in dict order.
RuleLabels ==
    <<N_Brand, N_Location, N_CoreBI, N_Commercial, N_DataAnalytics,
      N_LongTail, N_Competitive, N_Technical>>

RuleIntents ==
    <<I_Brand, I_Location, I_Category, I_Commercial, I_Product, I_LongTail,
      I_Competitor, I_Product>>

LabelIndex(labels, name) == CHOOSE i \in 1..Len(labels) : labels[i] = name

EmptyBuckets == [i \in 1..8 |-> <<>>]

AddToBucket(buckets, labels, name, kw) ==
    [buckets EXCEPT ![LabelIndex(labels, name)] = Append(@, kw)]

\* s[:n] of Python, also for negative n.
Slice(s, n) ==
    IF n >= 0 THEN SubSeq(s, 1, Min(n, Len(s)))
    ELSE SubSeq(s, 1, Max(Len(s) + n, 0))

RECURSIVE EveryGroupFrom(_, _, _, _)
EveryGroupFrom(i, labels, intents, buckets) ==
    IF i > Len(labels) THEN <<>>
    ELSE <<AdGroup(labels[i], intents[i], buckets[i],
                   IF buckets[i] = <<>> THEN <<0, 0>>
                   ELSE GroupCpcRange(buckets[i]))>>
         \o EveryGroupFrom(i + 1, labels, intents, buckets)

\* `for group_name, group_data in groups.items()` with `if
\* group_data['keywords']` (`if not kws: continue` in the zero-shot function):
\* one AdGroup per non-empty bucket from position i on.
RECURSIVE NonEmptyGroupsFrom(_, _, _, _)
NonEmptyGroupsFrom(i, labels, intents, buckets) ==
    IF i > Len(labels) THEN <<>>
    ELSE (IF buckets[i] = <<>> THEN <<>>
          ELSE <<AdGroup(labels[i], intents[i], buckets[i],
                         GroupCpcRange(buckets[i]))>>)
         \o NonEmptyGroupsFrom(i + 1, labels, intents, buckets)

\* The tail of both grouping functions: one AdGroup per non-empty bucket in
\* dict order, then ad_groups[:max_groups].
BuildAdGroups(labels, intents, buckets, mg) ==
    Slice(NonEmptyGroupsFrom(1, labels, intents, buckets), mg)

BrandWords == {<<"c","u","b","e","h","q">>, <<"c","u","b","e"," ","h","q">>, <<"c","u","b","e">>, <<"l","o","g","i","n">>, <<"d","e","m","o">>, <<"p","r","i","c","i","n","g">>, <<"r","e","v","i","e","w","s">>, <<"a","l","t","e","r","n","a","t","i","v","e","s">>}
BrandContext == {<<"c","u","b","e","h","q">>, <<"c","u","b","e">>}
LocationWords == {<<"b","e","n","g","a","l","u","r","u">>, <<"m","u","m","b","a","i">>, <<"d","e","l","h","i">>, <<"h","y","d","e","r","a","b","a","d">>, <<"b","a","n","g","a","l","o","r","e">>, <<"c","h","e","n","n","a","i">>, <<"p","u","n","e">>, <<"k","o","l","k","a","t","a">>}
CommercialWords == {<<"b","u","y">>, <<"p","u","r","c","h","a","s","e">>, <<"p","r","i","c","i","n","g">>, <<"c","o","s","t">>, <<"s","e","r","v","i","c","e">>, <<"c","o","m","p","a","n","y">>, <<"p","r","o","v","i","d","e","r">>, <<"v","e","n","d","o","r">>, <<"s","u","b","s","c","r","i","p","t","i","o","n">>, <<"p","l","a","n">>}
CoreBIWords == {<<"b","u","s","i","n","e","s","s"," ","i","n","t","e","l","l","i","g","e","n","c","e">>, <<"b","i"," ","t","o","o","l">>, <<"b","i"," ","p","l","a","t","f","o","r","m">>, <<"i","n","t","e","l","l","i","g","e","n","c","e"," ","p","l","a","t","f","o","r","m">>, <<"b","i"," ","s","o","f","t","w","a","r","e">>}
DataWords == {<<"d","a","t","a"," ","a","n","a","l","y","t","i","c","s">>, <<"a","n","a","l","y","t","i","c","s"," ","p","l","a","t","f","o","r","m">>, <<"d","a","t","a"," ","v","i","s","u","a","l","i","z","a","t","i","o","n">>, <<"d","a","s","h","b","o","a","r","d">>, <<"r","e","p","o","r","t","i","n","g">>, <<"a","n","a","l","y","t","i","c","s"," ","s","o","f","t","w","a","r","e">>}
CompetitorWords == {<<"r","e","p","u","t","a","t","i","o","n">>, <<"b","i","r","d","e","y","e">>, <<"p","o","d","i","u","m">>, <<"v","s">>, <<"c","o","m","p","a","r","e">>, <<"a","l","t","e","r","n","a","t","i","v","e">>, <<"c","o","m","p","e","t","i","t","o","r">>}
ZeroShotBrandWords == {<<"c","u","b","e","h","q">>, <<"c","u","b","e"," ","h","q">>}
ZeroShotCompetitorWords == {<<"r","e","p","u","t","a","t","i","o","n">>, <<"b","i","r","d","e","y","e">>, <<"p","o","d","i","u","m">>, <<"c","o","m","p","a","r","e">>, <<"v","s">>, <<"a","l","t","e","r","n","a","t","i","v","e">>}

RuleBucketCompetitorEarly(kw) ==
    LET term_lower == LowerStr(kw.term)
        word_count == WordCount(kw.term)
        search_volume == kw.vol
    IN  IF ContainsAny(term_lower, BrandWords)
           /\ ContainsAny(term_lower, BrandContext) THEN N_Brand
        ELSE IF ContainsAny(term_lower, LocationWords)
                \/ Contains(term_lower, <<" ","i","n"," ">>) THEN N_Location
        ELSE IF ContainsAny(term_lower, CommercialWords) THEN N_Commercial
        ELSE IF ContainsAny(term_lower, CoreBIWords) THEN N_CoreBI
        ELSE IF ContainsAny(term_lower, DataWords) THEN N_DataAnalytics
        ELSE IF ContainsAny(term_lower, CompetitorWords) THEN N_Competitive
        ELSE IF word_count >= 4 \/ (search_volume < 1000 /\ kw.comp = "low")
             THEN N_LongTail
        ELSE IF search_volume > 2000 THEN N_CoreBI
        ELSE N_DataAnalytics

\* The if/elif chain of _create_enhanced_rule_based_groups for one keyword.
RuleBucket(kw) ==
    LET term_lower == LowerStr(kw.term)
        word_count == WordCount(kw.term)
        search_volume == kw.vol
    IN  IF ContainsAny(term_lower, BrandWords)
           /\ ContainsAny(term_lower, BrandContext) THEN N_Brand
        ELSE IF ContainsAny(term_lower, LocationWords)
                \/ Contains(term_lower, <<" ","i","n"," ">>) THEN N_Location
        ELSE IF ContainsAny(term_lower, CommercialWords) THEN N_Commercial
        ELSE IF ContainsAny(term_lower, CoreBIWords) THEN N_CoreBI
        ELSE IF ContainsAny(term_lower, DataWords) THEN N_DataAnalytics
        ELSE IF word_count >= 4 \/ (search_volume < 1000 /\ kw.comp = "low")
             THEN N_LongTail
        ELSE IF ContainsAny(term_lower, CompetitorWords) THEN N_Competitive
        ELSE IF search_volume > 2000 THEN N_CoreBI
        ELSE N_DataAnalytics

\* RuleBucket on the keywords of the pool, evaluated once.
RuleBucketOf == [kw \in ClsPool \cup RulePool |-> RuleBucket(kw)]

RECURSIVE RuleBucketsFrom(_, _)
RuleBucketsFrom(buckets, kws) ==
    IF kws = <<>> THEN buckets
    ELSE RuleBucketsFrom(
             AddToBucket(buckets, RuleLabels, RuleBucketOf[Head(kws)], Head(kws)),
             Tail(kws))

\* _create_enhanced_rule_based_groups
RuleBasedGroups(kws, mg) ==
    BuildAdGroups(RuleLabels, RuleIntents, RuleBucketsFrom(EmptyBuckets, kws), mg)

\* The override of _create_zero_shot_groups that needs no model call, or
\* <<>> when the model is to be asked.
ZeroShotOverride(kw) ==
    LET low == LowerStr(kw.term)
    IN  IF ContainsAny(low, ZeroShotBrandWords) THEN N_BrandZS
        ELSE IF ContainsAny(low, ZeroShotCompetitorWords) THEN N_Competitive
        ELSE <<>>

\* ZeroShotOverride on the keywords of the pool, evaluated once.
ZeroShotOverrideOf == [kw \in ClsPool |-> ZeroShotOverride(kw)]

----------------------------------------------------------------------------
(* Components at rest: the values of a component's variables in a          *)
(* specification that exercises another component.                         *)

AllocOff ==
    /\ ad_groups = <<>> /\ budget = 0 /\ alloc_pc = "off"
    /\ prioritized_groups = <<>> /\ alloc_i = 0 /\ running_spend = 0
    /\ optimized_groups = <<>> /\ campaign = SearchCampaign(<<>>, 0)

ClsOff ==
    /\ zero_shot = "none" /\ cls_keywords = <<>> /\ max_groups = 0
    /\ cls_pc = "off" /\ cls_buckets = <<>> /\ cls_i = 0
    /\ cls_result = <<>> /\ cls_strategy = "none" /\ cls_calls = 0
    /\ model_invoked = FALSE /\ cls_failed_once = FALSE

ScOff ==
    /\ sc_keywords = <<>> /\ sc_pc = "off"
    /\ sc_result = [status |-> "none", keywords |-> <<>>]
    /\ sc_perm_result = [status |-> "none", keywords |-> <<>>]
    /\ sc_perm = <<>>

DdOff ==
    /\ raw_keywords = <<>> /\ dd_variant = "none" /\ min_volume = 0
    /\ dd_pc = "off" /\ unique_keywords = <<>>
    /\ dd_once = [status |-> "none", keywords |-> <<>>]
    /\ dd_twice = [status |-> "none", keywords |-> <<>>]

EstOff ==
    /\ est_keyword = <<>> /\ est_pc = "off"
    /\ est_first = <<>> /\ est_second = <<>>

PrOff ==
    /\ pr_raw = <<>> /\ pr_min_volume = 0 /\ pr_pc = "off"
    /\ pr_result = [status |-> "none", keywords |-> <<>>]

BidOff ==
    /\ product_keywords = <<>> /\ shopping_budget = 0 /\ target_cpa = <<>>
    /\ tie_up = FALSE /\ bid_pc = "off" /\ suggestions = <<>>
    /\ total_suggested_spend = 0

PmOff ==
    /\ pm_keywords = <<>> /\ pm_top_n = 0 /\ pm_pc = "off" /\ themes = <<>>

RbOff ==
    /\ rb_keywords = <<>> /\ rb_pc = "off" /\ rb_groups = <<>>

----------------------------------------------------------------------------
(* Inputs of the allocator: lists of ad groups as the classifier builds    *)
(* them (distinct bucket names, non-empty keyword lists, disjoint terms).  *)

MaxGroups == 3

AllocBuckets ==
    {<<N_Brand, I_Brand>>, <<N_Commercial, I_Commercial>>,
     <<N_CoreBI, I_Category>>, <<N_DataAnalytics, I_Product>>,
     <<N_LongTail, I_LongTail>>}

\* suggested_cpc_range values in cents; (0, 0) is the range of a group
\* whose keywords all have zero bids.
AllocRanges == {<<0, 0>>, <<50, 150>>}

AllocCounts == {1, 3}

AllocBudgets == {-3000, 0, 2999, 7000, 15000}

AllocScores == <<Frac(50, 100), Frac(80, 100), Frac(80, 100)>>

AllocDigits == <<"1", "2", "3">>

AllocGroup(b, r, n) ==
    AdGroup(b[1], b[2],
            [i \in 1..n |->
                Keyword(LowerStr(SubSeq(b[1], 1, 3)) \o <<AllocDigits[i]>>,
                        600, r[1], r[2], "medium", AllocScores[i])],
            r)

AllocGroupDomain ==
    {AllocGroup(b, r, n) : b \in AllocBuckets, r \in AllocRanges,
                           n \in AllocCounts}

DistinctNames(groups) ==
    \A i, j \in 1..Len(groups) : i # j => groups[i].name # groups[j].name

InitAlloc ==
    /\ ad_groups \in {g \in SeqsUpTo(AllocGroupDomain, MaxGroups) :
                         DistinctNames(g)}
    /\ budget \in AllocBudgets
    /\ alloc_pc = "start"
    /\ prioritized_groups = <<>> /\ alloc_i = 0 /\ running_spend = 0
    /\ optimized_groups = <<>> /\ campaign = SearchCampaign(<<>>, 0)
    /\ ClsOff /\ ScOff /\ DdOff /\ BidOff /\ EstOff /\ PrOff /\ RbOff /\ PmOff

SpecAlloc == InitAlloc /\ [][NextAlloc]_vars

----------------------------------------------------------------------------
(* Properties of the allocator *)

\* The spend of a list of groups as section 4.5 states it: the sum over the
\* groups of avg(suggested_cpc_range) x keyword count x 30, in cents.
RECURSIVE NaiveEstimatedSpend(_)
NaiveEstimatedSpend(groups) ==
    IF groups = <<>> THEN 0
    ELSE LET g == Head(groups) IN
         ((g.suggested_cpc_range[1] + g.suggested_cpc_range[2])
              * Len(g.keywords) * 30) \div 2
         + NaiveEstimatedSpend(Tail(groups))

IsTruncatedOutput ==
    /\ alloc_pc = "done"
    /\ \E i \in 1..Len(campaign.ad_groups) :
          \A j \in 1..Len(ad_groups) : campaign.ad_groups[i] # ad_groups[j]

\* C1: for every list of ad groups and every non-negative budget, the groups
\* the allocator returns have a total estimated spend (sum of avg CPC x
\* keyword count x 30) that is at most the budget.
C1_SpendWithinBudget ==
    (alloc_pc = "done" /\ budget >= 0)
        => NaiveEstimatedSpend(campaign.ad_groups) <= budget

\* C1 witness: a binding positive budget, one group accepted whole and the
\* next one truncated.
C1_Witness ==
    /\ alloc_pc = "done" /\ budget > 0
    /\ Len(campaign.ad_groups) >= 2
    /\ IsTruncatedOutput
    /\ NaiveEstimatedSpend(ad_groups) > budget

\* C2: with a zero or negative budget the campaign built by
\* create_search_campaign has no ad groups and no exception is raised,
\* whatever the groups (their suggested_cpc_range may be (0, 0)).
C2_NonPositiveBudgetEmptyCampaign ==
    (budget <= 0 /\ alloc_pc \in {"done", "raised"})
        => (alloc_pc = "done" /\ campaign.ad_groups = <<>>)

----------------------------------------------------------------------------
(* Inputs of the classifier: scored keywords with distinct terms *)

MaxClsKeywords == 3
MaxCalls == 2

DistinctTerms(kws) ==
    \A i, j \in 1..Len(kws) : i # j => kws[i].term # kws[j].term

ClsInputs == {s \in SeqsUpTo(ClsPool, MaxClsKeywords) : DistinctTerms(s)}

\* max_groups as callers pass it: the configured cap (15 by default) or a
\* smaller cap.
ClsMaxGroups == {1, 15}

\* What the zero-shot pipeline may do when asked about a keyword: rank one of
\* the candidate labels first, return no labels, or raise.
ModelOutcomes ==
    {[kind |-> "label", label |-> N_Commercial],
     [kind |-> "label", label |-> N_LongTail],
     [kind |-> "nolabels", label |-> <<>>],
     [kind |-> "raise", label |-> <<>>]}

----------------------------------------------------------------------------
(* HuggingFaceProcessor: create_ad_groups_with_llm *)

\* create_ad_groups_with_llm is entered: the zero-shot path when the
\* pipeline was loaded, the rule-based function otherwise.
CallClassify ==
    /\ cls_pc = "idle"
    /\ cls_calls < MaxCalls
    /\ \E kws \in ClsInputs, mg \in ClsMaxGroups :
          /\ cls_keywords' = kws
          /\ max_groups' = mg
          /\ IF zero_shot # "none"
             THEN /\ cls_pc' = "zero_shot"
                  /\ cls_strategy' = "zero_shot"
                  /\ cls_buckets' = EmptyBuckets
                  /\ cls_i' = 1
                  /\ cls_result' = <<>>
             ELSE /\ cls_pc' = "returned"
                  /\ cls_strategy' = "rule_based"
                  /\ cls_buckets' = EmptyBuckets
                  /\ cls_i' = 0
                  /\ cls_result' = RuleBasedGroups(kws, mg)
    /\ cls_calls' = cls_calls + 1
    /\ model_invoked' = FALSE
    /\ UNCHANGED <<zero_shot, cls_failed_once>>
    /\ UNCHANGED exceptCls

\* One iteration of `for kw in keywords` of _create_zero_shot_groups. An
\* exception of the pipeline leaves the function; create_ad_groups_with_llm
\* catches it and returns the rule-based groups of the same keywords.
ZeroShotStep ==
    /\ cls_pc = "zero_shot"
    /\ cls_i <= Len(cls_keywords)
    /\ LET kw == cls_keywords[cls_i] IN
       IF ZeroShotOverrideOf[kw] # <<>>
       THEN /\ cls_buckets' = AddToBucket(cls_buckets, ZeroShotLabels,
                                          ZeroShotOverrideOf[kw], kw)
            /\ cls_i' = cls_i + 1
            /\ model_invoked' = FALSE
            /\ UNCHANGED <<cls_pc, cls_strategy, cls_result, cls_failed_once>>
       ELSE \E out \in ModelOutcomes :
            /\ model_invoked' = TRUE
            /\ IF out.kind = "raise"
               THEN /\ cls_failed_once' = TRUE
                    /\ cls_strategy' = "rule_based"
                    /\ cls_result' = RuleBasedGroups(cls_keywords, max_groups)
                    /\ cls_pc' = "returned"
                    /\ UNCHANGED <<cls_buckets, cls_i>>
               ELSE /\ cls_buckets' =
                          AddToBucket(cls_buckets, ZeroShotLabels,
                                      IF out.kind = "label" THEN out.label
                                      ELSE N_CoreBI, kw)
                    /\ cls_i' = cls_i + 1
                    /\ UNCHANGED <<cls_pc, cls_strategy, cls_result,
                                   cls_failed_once>>
    /\ UNCHANGED <<zero_shot, cls_keywords, max_groups, cls_calls>>
    /\ UNCHANGED exceptCls

\* The loop of _create_zero_shot_groups is exhausted: the groups are built
\* and returned.
ZeroShotReturn ==
    /\ cls_pc = "zero_shot"
    /\ cls_i > Len(cls_keywords)
    /\ cls_result' = BuildAdGroups(ZeroShotLabels, ZeroShotIntents,
                                   cls_buckets, max_groups)
    /\ cls_pc' = "returned"
    /\ model_invoked' = FALSE
    /\ UNCHANGED <<zero_shot, cls_keywords, max_groups, cls_buckets, cls_i,
                   cls_strategy, cls_calls, cls_failed_once>>
    /\ UNCHANGED exceptCls

\* The caller (SEMCampaignBuilder._create_ad_groups) has the returned list;
\* the processor keeps nothing of the call but self.zero_shot.
TakeAdGroups ==
    /\ cls_pc = "returned"
    /\ cls_pc' = "idle"
    /\ cls_keywords' = <<>> /\ max_groups' = 0
    /\ cls_buckets' = EmptyBuckets /\ cls_i' = 0
    /\ cls_result' = <<>> /\ cls_strategy' = "none"
    /\ model_invoked' = FALSE
    /\ UNCHANGED <<zero_shot, cls_calls, cls_failed_once>>
    /\ UNCHANGED exceptCls

NextClassify == CallClassify \/ ZeroShotStep \/ ZeroShotReturn \/ TakeAdGroups

\* HuggingFaceProcessor.__init__: the pipeline loads, or its construction
\* raises and zero_shot stays None.
InitClassify ==
    /\ zero_shot \in {"loaded", "none"}
    /\ cls_keywords = <<>> /\ max_groups = 0
    /\ cls_pc = "idle" /\ cls_buckets = EmptyBuckets /\ cls_i = 0
    /\ cls_result = <<>> /\ cls_strategy = "none" /\ cls_calls = 0
    /\ model_invoked = FALSE /\ cls_failed_once = FALSE
    /\ AllocOff /\ ScOff /\ DdOff /\ BidOff /\ EstOff /\ PrOff /\ RbOff /\ PmOff

SpecClassify == InitClassify /\ [][NextClassify]_vars

----------------------------------------------------------------------------
(* Properties of the classifier *)

RECURSIVE CountIn(_, _)
CountIn(kw, kws) ==
    IF kws = <<>> THEN 0
    ELSE (IF Head(kws) = kw THEN 1 ELSE 0) + CountIn(kw, Tail(kws))

\* The number of places (group, position) at which kw stands in groups.
RECURSIVE Occurrences(_, _)
Occurrences(kw, groups) ==
    IF groups = <<>> THEN 0
    ELSE CountIn(kw, Head(groups).keywords) + Occurrences(kw, Tail(groups))

\* C3: after create_ad_groups_with_llm, under either strategy and for any
\* max_groups, every input keyword stands in exactly one returned AdGroup
\* (and so in no two of them).
C3_ClassificationIsPartition ==
    cls_pc = "returned"
        => \A k \in 1..Len(cls_keywords) :
              Occurrences(cls_keywords[k], cls_result) = 1

\* C4: once the pipeline was unavailable at construction, or has raised
\* during a classification call, no later step invokes the model and no
\* later call takes the zero-shot path.
C4_FallbackIsPermanent ==
    [][(zero_shot = "none" \/ cls_failed_once)
          => (~model_invoked' /\ cls_strategy' # "zero_shot")]_vars

----------------------------------------------------------------------------
(* Deliverable 1 (main.py run_deliverable_1): the ad groups of one          *)
(* classification call are handed to SearchCampaignGenerator.              *)

D1Budgets == {0, 10000, 100000}

\* _generate_search_campaign: SearchCampaignGenerator(budget, ...) is built
\* and create_search_campaign(ad_groups) is called with the classifier's
\* result.
GenerateSearchCampaign ==
    /\ cls_pc = "returned"
    /\ alloc_pc = "off"
    /\ ad_groups' = cls_result
    /\ budget' \in D1Budgets
    /\ alloc_pc' = "start"
    /\ UNCHANGED <<prioritized_groups, alloc_i, running_spend,
                   optimized_groups, campaign>>
    /\ UNCHANGED exceptAlloc

NextDeliverable1 ==
    \/ CallClassify \/ ZeroShotStep \/ ZeroShotReturn
    \/ GenerateSearchCampaign
    \/ OptimizeStart \/ OptimizeStep \/ CreateCampaign

SpecDeliverable1 == InitClassify /\ [][NextDeliverable1]_vars

RangeOk(g) ==
    /\ 0 <= g.suggested_cpc_range[1]
    /\ g.suggested_cpc_range[1] <= g.suggested_cpc_range[2]

BidsOk(kws) == \A i \in 1..Len(kws) : 0 <= kws[i].low /\ kws[i].low <= kws[i].high

\* C9: given keywords with 0 <= bid_low <= bid_high, every AdGroup the
\* classifier returns and every AdGroup of the campaign after allocation has
\* a suggested_cpc_range (low, high) with 0 <= low <= high.
C9_CpcRangeOrdered ==
    BidsOk(cls_keywords)
        => /\ cls_pc = "returned"
                => \A i \in 1..Len(cls_result) : RangeOk(cls_result[i])
           /\ alloc_pc = "done"
                => \A i \in 1..Len(campaign.ad_groups) :
                      RangeOk(campaign.ad_groups[i])

\* C9 witness: a campaign after a binding allocation that holds a truncated
\* group whose range is a volume-weighted mean of several keywords' bids.
C9_Witness ==
    /\ alloc_pc = "done"
    /\ \E i \in 1..Len(campaign.ad_groups) :
          LET g == campaign.ad_groups[i] IN
          /\ \A j \in 1..Len(ad_groups) : g # ad_groups[j]
          /\ \A k \in 1..Len(cls_keywords) :
                g.suggested_cpc_range # <<cls_keywords[k].low, cls_keywords[k].high>>
          /\ g.suggested_cpc_range # <<50, 200>>

----------------------------------------------------------------------------
(* HuggingFaceProcessor._calculate_relevance_scores *)

MaxBatch == 3

HighValueWords == {<<"b","u","s","i","n","e","s","s"," ","i","n","t","e","l","l","i","g","e","n","c","e">>, <<"b","i"," ","s","o","f","t","w","a","r","e">>, <<"a","n","a","l","y","t","i","c","s"," ","p","l","a","t","f","o","r","m">>}
BITermWords == {<<"a","n","a","l","y","t","i","c","s">>, <<"d","a","s","h","b","o","a","r","d">>, <<"r","e","p","o","r","t","i","n","g">>, <<"d","a","t","a"," ","v","i","s","u","a","l","i","z","a","t","i","o","n">>}
GeneralBIWords == {<<"d","a","t","a">>, <<"i","n","s","i","g","h","t","s">>, <<"i","n","t","e","l","l","i","g","e","n","c","e">>}
ScoreBrandWords == {<<"c","u","b","e","h","q">>, <<"c","u","b","e">>}
ScoreCommercialWords == {<<"s","o","f","t","w","a","r","e">>, <<"p","l","a","t","f","o","r","m">>, <<"t","o","o","l">>, <<"s","o","l","u","t","i","o","n">>}
IrrelevantWords == {<<"g","e","t">>, <<"s","e","e">>, <<"m","o","r","e">>, <<"o","v","e","r">>, <<"t","h","e">>, <<"a","n","d">>}

\* relevance_bonus in hundredths (0.25 is 25).
RelevanceBonus(term) ==
    LET term_lower == LowerStr(term) IN
    (IF ContainsAny(term_lower, HighValueWords) THEN 25
     ELSE IF ContainsAny(term_lower, BITermWords) THEN 20
     ELSE IF ContainsAny(term_lower, GeneralBIWords) THEN 10
     ELSE 0)
    + (IF ContainsAny(term_lower, ScoreBrandWords) THEN 20 ELSE 0)
    + (IF ContainsAny(term_lower, ScoreCommercialWords) THEN 15 ELSE 0)
    - (IF ContainsAny(term_lower, IrrelevantWords) THEN 10 ELSE 0)

\* comp_scores in hundredths.
CompetitionScore(comp) ==
    IF comp = "low" THEN 20 ELSE IF comp = "medium" THEN 15 ELSE 10

RECURSIVE MaxVolumeOf(_)
MaxVolumeOf(kws) ==
    IF Len(kws) = 1 THEN Head(kws).vol
    ELSE Max(Head(kws).vol, MaxVolumeOf(Tail(kws)))

RECURSIVE MaxCpcOf(_)
MaxCpcOf(kws) ==
    IF Len(kws) = 1 THEN Head(kws).high
    ELSE Max(Head(kws).high, MaxCpcOf(Tail(kws)))

BatchMaxVolumeFirst(kws) == Head(kws).vol

\* max_volume = max(kw.metrics.average_monthly_searches for kw in keywords)
BatchMaxVolume(kws) == MaxVolumeOf(kws)

\* max_cpc = max(kw.metrics.top_of_page_bid_high for kw in keywords)
BatchMaxCpc(kws) == MaxCpcOf(kws)

CapScoreMissing(total) == total

\* min(1.0, total)
CapScore(total) == IF total.n > total.d THEN Frac(total.d, total.d) ELSE total

\* volume_score + competition_score + cpc_efficiency + relevance_bonus over
\* the common denominator 200 * max_volume * max_cpc, where
\*   volume_score   = (vol / max_volume) * 0.3
\*   cpc_efficiency = max(0, (max_cpc - (low + high) / 2) / max_cpc) * 0.2
\* and max_volume > 0, max_cpc > 0 (the caller has excluded the divisions by
\* zero).
ScoreTotal(kw, bonus, max_volume, max_cpc) ==
    Reduced(Frac(30 * kw.vol * 2 * max_cpc
         + CompetitionScore(kw.comp) * max_volume * 2 * max_cpc
         + 20 * Max(0, 2 * max_cpc - kw.low - kw.high) * max_volume
         + bonus * max_volume * 2 * max_cpc,
         200 * max_volume * max_cpc))

\* The terms the scorer is exercised on.
ScTerms == {<<"c","u","b","e","h","q"," ","b","i"," ","s","o","f","t","w","a","r","e">>, <<"k","p","i">>, <<"g","e","t"," ","m","o","r","e">>, <<"d","a","s","h","b","o","a","r","d">>}

\* The terms process_raw_keywords is exercised on (after strip()).
ProcTerms ==
    {<<"c","u","b","e","h","q">>, <<"b","u","s","i","n","e","s","s"," ","i","n","t","e","l","l","i","g","e","n","c","e"," ","p","l","a","t","f","o","r","m">>,
     <<"b","u","y"," ","b","i"," ","s","o","f","t","w","a","r","e"," ","n","e","a","r"," ","m","e">>,
     <<"k","p","i">>, <<"o","k","r">>}

RelevanceBonusOf == [t \in ScTerms \cup ProcTerms |-> RelevanceBonus(t)]

\* _calculate_relevance_scores: the batch with every relevance_score set, or
\* the ZeroDivisionError of the first iteration when the batch maximum of
\* the volumes or of the bid_high values is zero.
ScoreBatch(kws) ==
    IF kws = <<>> THEN [status |-> "ok", keywords |-> kws]
    ELSE LET max_volume == BatchMaxVolume(kws)
             max_cpc == BatchMaxCpc(kws)
         IN  IF max_volume = 0 \/ max_cpc = 0
             THEN [status |-> "raised", keywords |-> kws]
             ELSE [status |-> "ok",
                   keywords |->
                     [i \in 1..Len(kws) |->
                        [kws[i] EXCEPT !.score =
                           CapScore(ScoreTotal(kws[i], RelevanceBonusOf[kws[i].term],
                                               max_volume, max_cpc))]]]

\* Keyword metrics of the batches: volume, bid_low, bid_high, competition.
ScMetrics ==
    {<<0, 400, 400, "high">>, <<500, 50, 200, "low">>,
     <<8000, 0, 0, "low">>, <<8000, 400, 400, "medium">>}

\* A Keyword as process_raw_keywords constructs it: relevance_score = 0.0.
ScKeywords ==
    {Keyword(t, m[1], m[2], m[3], m[4], Frac(0, 1)) : t \in ScTerms, m \in ScMetrics}

ScBatches == {s \in SeqsUpTo(ScKeywords, MaxBatch) : DistinctTerms(s)}

OrdersOf(n) ==
    {p \in [1..n -> 1..n] : \A i, j \in 1..n : i /= j => p[i] /= p[j]}

Permuted(kws, p) == [i \in 1..Len(kws) |-> kws[p[i]]]

\* _calculate_relevance_scores(keywords)
ScoreKeywords ==
    /\ sc_pc = "start"
    /\ sc_result' = ScoreBatch(sc_keywords)
    /\ sc_pc' = "scored"
    /\ UNCHANGED <<sc_keywords, sc_perm, sc_perm_result>>
    /\ UNCHANGED exceptSc

\* _calculate_relevance_scores on the same batch in another order.
ScorePermuted ==
    /\ sc_pc = "scored"
    /\ \E p \in OrdersOf(Len(sc_keywords)) :
          /\ sc_perm' = p
          /\ sc_perm_result' = ScoreBatch(Permuted(sc_keywords, p))
    /\ sc_pc' = "scored_both"
    /\ UNCHANGED <<sc_keywords, sc_result>>
    /\ UNCHANGED exceptSc

NextScore == ScoreKeywords \/ ScorePermuted

InitScore ==
    /\ sc_keywords \in ScBatches
    /\ sc_pc = "start"
    /\ sc_result = [status |-> "none", keywords |-> <<>>]
    /\ sc_perm_result = [status |-> "none", keywords |-> <<>>]
    /\ sc_perm = <<>>
    /\ AllocOff /\ ClsOff /\ DdOff /\ BidOff /\ EstOff /\ PrOff /\ RbOff /\ PmOff

SpecScore == InitScore /\ [][NextScore]_vars

\* C5: for every non-empty batch of keywords with bid_low <= bid_high, every
\* relevance_score that _calculate_relevance_scores assigns is in [0, 1].
C5_ScoreInUnitInterval ==
    (sc_pc = "scored" /\ sc_result.status = "ok" /\ BidsOk(sc_keywords))
        => \A i \in 1..Len(sc_result.keywords) :
              LET s == sc_result.keywords[i].score IN
              /\ s.d > 0
              /\ 0 <= s.n
              /\ s.n <= s.d

\* C5 witness: one batch in which a keyword scores exactly 0 and another is
\* capped at exactly 1.
C5_Witness ==
    /\ sc_pc = "scored" /\ sc_result.status = "ok"
    /\ \E i, j \in 1..Len(sc_result.keywords) :
          /\ sc_result.keywords[i].score.n = 0
          /\ sc_result.keywords[j].score.n = sc_result.keywords[j].score.d
          /\ FracLess(Frac(1, 1),
                      ScoreTotal(sc_keywords[j],
                                 RelevanceBonusOf[sc_keywords[j].term],
                                 BatchMaxVolume(sc_keywords),
                                 BatchMaxCpc(sc_keywords)))

\* C6: scoring does not depend on the processing order: a batch and any
\* permutation of it give every keyword the same relevance_score (and raise
\* on the same batches).
C6_ScoreOrderIndependent ==
    sc_pc = "scored_both"
        => /\ sc_perm_result.status = sc_result.status
           /\ sc_result.status = "ok"
                => \A i \in 1..Len(sc_keywords) :
                      /\ sc_perm_result.keywords[i].term
                            = sc_result.keywords[sc_perm[i]].term
                      /\ FracEq(sc_perm_result.keywords[i].score,
                                sc_result.keywords[sc_perm[i]].score)

\* C6 witness: a batch of three keywords with different volumes and bids,
\* scored in reversed order.
C6_Witness ==
    /\ sc_pc = "scored_both" /\ sc_result.status = "ok"
    /\ Len(sc_keywords) = 3
    /\ sc_perm = <<3, 2, 1>>
    /\ sc_keywords[1].vol < sc_keywords[2].vol
    /\ sc_keywords[3].high < sc_keywords[2].high
    /\ ~FracEq(sc_result.keywords[1].score, sc_result.keywords[3].score)

----------------------------------------------------------------------------
(* SEMCampaignBuilder._consolidate_and_filter_keywords (main.py) and *)
(* StreamlitSEMBuilder._filter_keywords (streamlit_app.py) *)

MaxRaw == 3

\* A raw record (a dict). data_source "absent" is a dict without the key.
RawRecord(keyword, data_source, search_volume) ==
    [keyword |-> keyword, data_source |-> data_source,
     search_volume |-> search_volume]

\* kw.get('keyword', '').lower().strip()
KeywordText(t) == Strip(LowerStr(t))

RawPool ==
    {RawRecord(<<" ","C","u","b","e","H","Q"," ">>, "wordstream_real", 150),
     RawRecord(<<"c","u","b","e","h","q">>, "brand", 6000),
     RawRecord(<<"C","u","b","e","h","q">>, "absent", 1500),
     RawRecord(<<"c","u","b","e","h","q"," ">>, "estimated", 6000),
     RawRecord(<<"c","u","b","e","h","q">>, "wordstream_real", 50),
     RawRecord(<<"k","p","i">>, "estimated", 6000),
     RawRecord(<<"k","p","i">>, "estimated", 7000),
     RawRecord(<<"K","P","I">>, "absent", 500),
     RawRecord(<<" "," ">>, "absent", 6000)}

KeywordTextOf == [t \in {r.keyword : r \in RawPool} |-> KeywordText(t)]

IsReal(kw) == kw.data_source = "wordstream_real"
IsEstimated(kw) == kw.data_source = "estimated"
IsUntagged(kw) == kw.data_source = "absent"
IsNotReal(kw) == kw.data_source # "wordstream_real"

PrependUnique(unique, kw) == <<kw>> \o unique

\* unique_keywords.append(kw)
AppendUnique(unique, kw) == Append(unique, kw)

\* One `for kw in ...` loop of the duplicate removal: a record is kept when
\* its keyword_text is non-empty and not yet in seen_keywords.
RECURSIVE KeepFirstOccurrences(_, _)
KeepFirstOccurrences(acc, kws) ==
    IF kws = <<>> THEN acc
    ELSE LET kw == Head(kws)
             keyword_text == KeywordTextOf[kw.keyword]
         IN  IF keyword_text # <<>> /\ keyword_text \notin acc.seen
             THEN KeepFirstOccurrences(
                      [seen |-> acc.seen \cup {keyword_text},
                       unique |-> AppendUnique(acc.unique, kw)],
                      Tail(kws))
             ELSE KeepFirstOccurrences(acc, Tail(kws))

\* main.py: real data first, other (untagged) data second, estimated last.
UniqueKeywordsMain(raw) ==
    LET start == [seen |-> {}, unique |-> <<>>]
        after_real == KeepFirstOccurrences(start, SelectSeq(raw, IsReal))
        after_other == KeepFirstOccurrences(after_real, SelectSeq(raw, IsUntagged))
        after_estimated ==
            KeepFirstOccurrences(after_other, SelectSeq(raw, IsEstimated))
    IN  after_estimated.unique

\* streamlit_app.py: real data first, then every other record.
UniqueKeywordsStreamlit(raw) ==
    LET start == [seen |-> {}, unique |-> <<>>]
        after_real == KeepFirstOccurrences(start, SelectSeq(raw, IsReal))
        after_other == KeepFirstOccurrences(after_real, SelectSeq(raw, IsNotReal))
    IN  after_other.unique

\* main.py smart filtering: the if/elif chain on data_source.
KeepMain(kw) ==
    IF kw.data_source = "wordstream_real" THEN kw.search_volume >= 100
    ELSE IF kw.data_source = "absent" THEN kw.search_volume >= 1000
    ELSE IF kw.data_source = "estimated" THEN kw.search_volume >= 5000
    ELSE FALSE

\* streamlit_app.py volume filtering with the configured min_volume.
KeepStreamlit(kw, mv) ==
    IF kw.data_source = "wordstream_real" /\ kw.search_volume >= 100 THEN TRUE
    ELSE kw.search_volume >= mv

RECURSIVE FilterStreamlit(_, _)
FilterStreamlit(kws, mv) ==
    IF kws = <<>> THEN <<>>
    ELSE (IF KeepStreamlit(Head(kws), mv) THEN <<Head(kws)>> ELSE <<>>)
         \o FilterStreamlit(Tail(kws), mv)

\* The volume thresholds applied before the duplicate removal.
ConsolidateFilterFirst(raw) ==
    LET filtered == UniqueKeywordsMain(SelectSeq(raw, KeepMain)) IN
    IF filtered = <<>> THEN [status |-> "raised", keywords |-> <<>>]
    ELSE [status |-> "ok", keywords |-> filtered]

\* _consolidate_and_filter_keywords: the filtered list, or the
\* ZeroDivisionError of the final report (final_real / len(filtered_keywords))
\* when nothing passed the filter.
ConsolidateAndFilter(raw) ==
    LET filtered == SelectSeq(UniqueKeywordsMain(raw), KeepMain) IN
    IF filtered = <<>> THEN [status |-> "raised", keywords |-> <<>>]
    ELSE [status |-> "ok", keywords |-> filtered]

\* _filter_keywords
FilterKeywordsOf(raw, mv) ==
    [status |-> "ok", keywords |-> FilterStreamlit(UniqueKeywordsStreamlit(raw), mv)]

\* builder._consolidate_and_filter_keywords(raw_keywords), and once more on
\* the list it returned.
ConsolidateAndFilterKeywords ==
    /\ dd_variant = "main"
    /\ \/ /\ dd_pc = "start"
          /\ unique_keywords' = UniqueKeywordsMain(raw_keywords)
          /\ dd_once' = ConsolidateAndFilter(raw_keywords)
          /\ dd_pc' = "once"
          /\ UNCHANGED dd_twice
       \/ /\ dd_pc = "once" /\ dd_once.status = "ok"
          /\ dd_twice' = ConsolidateAndFilter(dd_once.keywords)
          /\ dd_pc' = "twice"
          /\ UNCHANGED <<unique_keywords, dd_once>>
    /\ UNCHANGED <<raw_keywords, dd_variant, min_volume>>
    /\ UNCHANGED exceptDd

\* builder._filter_keywords(raw_keywords, config), and once more on the list
\* it returned.
FilterKeywords ==
    /\ dd_variant = "streamlit"
    /\ \/ /\ dd_pc = "start"
          /\ unique_keywords' = UniqueKeywordsStreamlit(raw_keywords)
          /\ dd_once' = FilterKeywordsOf(raw_keywords, min_volume)
          /\ dd_pc' = "once"
          /\ UNCHANGED dd_twice
       \/ /\ dd_pc = "once" /\ dd_once.status = "ok"
          /\ dd_twice' = FilterKeywordsOf(dd_once.keywords, min_volume)
          /\ dd_pc' = "twice"
          /\ UNCHANGED <<unique_keywords, dd_once>>
    /\ UNCHANGED <<raw_keywords, dd_variant, min_volume>>
    /\ UNCHANGED exceptDd

NextDedup == ConsolidateAndFilterKeywords \/ FilterKeywords

\* min_search_volume of the Streamlit form: at least 100, 500 by default.
StreamlitMinVolumes == {100, 500}

InitDedup ==
    /\ raw_keywords \in SeqsUpTo(RawPool, MaxRaw)
    /\ \/ dd_variant = "main" /\ min_volume = 100
       \/ dd_variant = "streamlit" /\ min_volume \in StreamlitMinVolumes
    /\ dd_pc = "start"
    /\ unique_keywords = <<>>
    /\ dd_once = [status |-> "none", keywords |-> <<>>]
    /\ dd_twice = [status |-> "none", keywords |-> <<>>]
    /\ AllocOff /\ ClsOff /\ ScOff /\ BidOff /\ EstOff /\ PrOff /\ RbOff /\ PmOff

SpecDedup == InitDedup /\ [][NextDedup]_vars

\* C7: the deduplicator/filter is idempotent: applied to the list it
\* returned, it returns the same records in the same order (main.py and
\* streamlit_app.py alike).
C7_DedupIdempotent ==
    dd_pc = "twice" => dd_twice = dd_once

\* C7 witness: main.py, three raw records of which one is a duplicate, two
\* records returned, and the second application has run.
C7_Witness ==
    /\ dd_pc = "twice" /\ dd_variant = "main"
    /\ Len(raw_keywords) = 3
    /\ Len(unique_keywords) = 2
    /\ Len(dd_once.keywords) = 2
    /\ dd_once.keywords[1].data_source # dd_once.keywords[2].data_source

\* Trust order of the provenances: verified > brand > untagged > estimated.
TrustRank(kw) ==
    CASE kw.data_source = "wordstream_real" -> 1
      [] kw.data_source = "brand" -> 2
      [] kw.data_source = "absent" -> 3
      [] OTHER -> 4

\* The index in raw of the record that wins its normalized term: the
\* highest trust, and the first occurrence within it.
IsWinner(raw, i) ==
    \A j \in 1..Len(raw) :
        (j # i /\ KeywordTextOf[raw[j].keyword] = KeywordTextOf[raw[i].keyword])
            => \/ TrustRank(raw[i]) < TrustRank(raw[j])
               \/ TrustRank(raw[i]) = TrustRank(raw[j]) /\ i < j

\* C8: for every non-empty normalized term, duplicate removal keeps exactly
\* the record of the highest-trust provenance (verified > brand > untagged >
\* estimated), the first occurrence within that provenance.
C8_HighestTrustWins ==
    dd_pc \in {"once", "twice"}
        => \A i \in 1..Len(raw_keywords) :
              (KeywordTextOf[raw_keywords[i].keyword] # <<>> /\ IsWinner(raw_keywords, i))
                  => \E u \in 1..Len(unique_keywords) :
                        unique_keywords[u] = raw_keywords[i]

----------------------------------------------------------------------------
(* ShoppingCampaignGenerator.suggest_product_bids *)
(* Bids and the target CPC are cents; a bid before rounding is in tenths of *)
(* a cent; a ROAS score is in thousandths; an estimated spend is in         *)
(* thousandths of a cent. round(x, 2) of a value that lies exactly between  *)
(* two cents depends on the binary representation of x: tie_up chooses the  *)
(* direction, and both are explored.                                        *)

MaxProducts == 2

\* target_conversion_rate: float = 0.02, in percent
TargetConversionRatePercent == 2

\* scored_keywords[:30]
TopKeywordCount == 30

\* round(., 2) of num / den, a tie going the way of `up`.
RoundTie(num, den, up) ==
    LET q == num \div den
        r == num % den
    IN  IF 2 * r < den THEN q
        ELSE IF 2 * r > den THEN q + 1
        ELSE IF up THEN q + 1 ELSE q

\* estimated_conversions = max(10, int(self.shopping_budget / 60))
EstimatedConversions(b) == Max(10, TruncDiv(b, 6000))

\* calculate_target_cpc(target_cpa, conversion_rate) with target_cpa given
\* as the quotient cpa_num / cpa_den of cents.
CalculateTargetCpc(cpa_num, cpa_den, up) ==
    RoundTie(cpa_num * TargetConversionRatePercent, cpa_den * 100, up)

\* target_cpc of suggest_product_bids: from the given target_cpa, or from
\* calculate_target_cpa_from_budget when target_cpa is None (here <<>>).
TargetCpc(b, cpa, up) ==
    IF cpa = <<>> THEN CalculateTargetCpc(b, EstimatedConversions(b), up)
    ELSE CalculateTargetCpc(cpa[1], 1, up)

ShoppingCommercialTerms == {<<"b","u","y">>, <<"p","u","r","c","h","a","s","e">>, <<"s","o","f","t","w","a","r","e">>, <<"s","o","l","u","t","i","o","n">>, <<"p","l","a","t","f","o","r","m">>, <<"t","o","o","l">>, <<"s","e","r","v","i","c","e">>, <<"m","a","n","a","g","e","m","e","n","t">>}

\* The number of commercial_terms found in the lowercased term.
CommercialTermCount(term) ==
    Cardinality({w \in ShoppingCommercialTerms : Contains(LowerStr(term), w)})

ProductPool ==
    {Keyword(<<"b","u","y"," ","b","i"," ","s","o","f","t","w","a","r","e">>, 50000, 25, 75, "medium", Frac(9, 10)),
     Keyword(<<"d","a","s","h","b","o","a","r","d">>, 1200, 100, 300, "high", Frac(7, 10)),
     Keyword(<<"k","p","i"," ","t","o","o","l">>, 500, 100, 150, "low", Frac(1, 2)),
     Keyword(<<"a","n","a","l","y","t","i","c","s"," ","p","l","a","t","f","o","r","m">>, 12000, 50, 50, "medium", Frac(8, 10)),
     Keyword(<<"b","i">>, 800, 0, 0, "high", Frac(1, 2)),
     Keyword(<<"d","a","t","a"," ","m","a","n","a","g","e","m","e","n","t"," ","s","e","r","v","i","c","e">>, 60000, 200, 1000, "medium", Frac(6, 10))}

CommercialTermCountOf ==
    [t \in {k.term : k \in ProductPool \cup ClsPool} |-> CommercialTermCount(t)]

\* _calculate_roas_score, in thousandths.
RoasScore(kw, target_cpc) ==
    LET volume_score == IF kw.vol >= 50000 THEN 300
                        ELSE IF kw.vol >= 10000 THEN 250
                        ELSE IF kw.vol >= 1000 THEN 200
                        ELSE 100
        \* cpc_avg = (low + high) / 2 against target_cpc * 0.5, 1, 1.5
        efficiency_score == IF kw.low + kw.high <= target_cpc THEN 300
                            ELSE IF kw.low + kw.high <= 2 * target_cpc THEN 250
                            ELSE IF kw.low + kw.high <= 3 * target_cpc THEN 150
                            ELSE 50
        intent_score == Min(100 + 25 * CommercialTermCountOf[kw.term], 300)
        comp_score == IF kw.comp = "medium" THEN 100
                      ELSE IF kw.comp = "low" THEN 80
                      ELSE 50
    IN  Min(volume_score + efficiency_score + intent_score + comp_score, 1000)

\* _get_priority_label
PriorityLabel(roas_score) ==
    IF roas_score >= 800 THEN "HIGH"
    ELSE IF roas_score >= 600 THEN "MEDIUM"
    ELSE "LOW"

\* scored_keywords.sort(key=lambda x: x[1], reverse=True): stable, descending.
InsertByRoasScore(acc, p) ==
    LET later == {i \in 1..Len(acc) : acc[i].roas < p.roas}
        pos == IF later = {} THEN Len(acc) + 1
               ELSE CHOOSE i \in later : \A j \in later : i <= j
    IN  SubSeq(acc, 1, pos - 1) \o <<p>> \o SubSeq(acc, pos, Len(acc))

RECURSIVE SortByRoasFrom(_, _)
SortByRoasFrom(acc, rest) ==
    IF rest = <<>> THEN acc
    ELSE SortByRoasFrom(InsertByRoasScore(acc, Head(rest)), Tail(rest))

ScoredKeywords(kws, target_cpc) ==
    SortByRoasFrom(<<>>, [i \in 1..Len(kws) |->
                            [kw |-> kws[i], roas |-> RoasScore(kws[i], target_cpc)]])

\* The tiered bid in tenths of a cent.
TieredBid(roas_score, high, target_cpc) ==
    IF roas_score >= 800 THEN Min(9 * high, 12 * target_cpc)
    ELSE IF roas_score >= 600 THEN Min(7 * high, 10 * target_cpc)
    ELSE Min(5 * high, 8 * target_cpc)

ClampMissing(suggested, low, high) == suggested

\* suggested = max(low, min(suggested, high)), all in tenths of a cent.
ClampToMarket(suggested, low, high) == Max(low, Min(suggested, high))

Suggestion(kw, roas_score, suggested, spend, up) ==
    [product_hint |-> kw.term,
     suggested_cpc |-> RoundTie(suggested, 10, up),
     cpc_low |-> kw.low,
     cpc_high |-> kw.high,
     search_volume |-> kw.vol,
     roas_score |-> RoundTie(roas_score, 10, up),
     estimated_monthly_spend |-> RoundTie(spend, 1000, up),
     priority |-> PriorityLabel(roas_score)]

\* The `for kw, roas_score in scored_keywords[:30]` loop from position i with
\* total_suggested_spend = total (thousandths of a cent): the suggestions
\* and the total the loop ends with.
RECURSIVE BidLoop(_, _, _, _, _, _, _)
BidLoop(scored, i, total, acc, b, target_cpc, up) ==
    IF i > Min(Len(scored), TopKeywordCount)
    THEN [suggestions |-> acc, total |-> total]
    ELSE LET kw == scored[i].kw
             roas_score == scored[i].roas
             suggested == ClampToMarket(TieredBid(roas_score, kw.high, target_cpc),
                                        10 * kw.low, 10 * kw.high)
             \* suggested * average_monthly_searches * 0.01
             estimated_monthly_spend == suggested * kw.vol
             fits == total + estimated_monthly_spend <= 1000 * b
             total2 == IF fits THEN total + estimated_monthly_spend ELSE total
             acc2 == IF fits
                     THEN Append(acc, Suggestion(kw, roas_score, suggested,
                                                 estimated_monthly_spend, up))
                     ELSE acc
         IN  IF 10 * total2 >= 9 * 1000 * b
             THEN [suggestions |-> acc2, total |-> total2]
             ELSE BidLoop(scored, i + 1, total2, acc2, b, target_cpc, up)

SuggestBids(kws, b, cpa, up) ==
    IF kws = <<>> THEN [suggestions |-> <<>>, total |-> 0]
    ELSE LET target_cpc == TargetCpc(b, cpa, up)
         IN  BidLoop(ScoredKeywords(kws, target_cpc), 1, 0, <<>>, b, target_cpc, up)

\* generator.suggest_product_bids(product_keywords, target_cpa)
SuggestProductBids ==
    /\ bid_pc = "start"
    /\ LET out == SuggestBids(product_keywords, shopping_budget, target_cpa, tie_up)
       IN  /\ suggestions' = out.suggestions
           /\ total_suggested_spend' = out.total
    /\ bid_pc' = "done"
    /\ UNCHANGED <<product_keywords, shopping_budget, target_cpa, tie_up>>
    /\ UNCHANGED exceptBid

NextBids == SuggestProductBids

ShoppingBudgets == {0, 30000, 35000, 100000}

\* target_cpa: None (<<>>), or 50.00 and 100.00.
TargetCpas == {<<>>, <<5000>>, <<10000>>}

InitBids ==
    /\ product_keywords \in SeqsUpTo(ProductPool, MaxProducts)
    /\ shopping_budget \in ShoppingBudgets
    /\ target_cpa \in TargetCpas
    /\ tie_up \in BOOLEAN
    /\ bid_pc = "start"
    /\ suggestions = <<>>
    /\ total_suggested_spend = 0
    /\ AllocOff /\ ClsOff /\ ScOff /\ DdOff /\ EstOff /\ PrOff /\ RbOff /\ PmOff

SpecBids == InitBids /\ [][NextBids]_vars

----------------------------------------------------------------------------
(* Empty keyword sets *)

\* The record passes the volume filter of the function in use.
Qualifies(kw) ==
    IF dd_variant = "main" THEN KeepMain(kw) ELSE KeepStreamlit(kw, min_volume)

\* C11: an empty keyword set propagates as an empty output without an
\* exception: the deduplicator/filter given no records, or records that are
\* all filtered out, returns the empty list.
C11_EmptySetPropagates ==
    (/\ dd_pc \in {"once", "twice"}
     /\ \A i \in 1..Len(raw_keywords) : ~Qualifies(raw_keywords[i]))
        => dd_once = [status |-> "ok", keywords |-> <<>>]

----------------------------------------------------------------------------
(* The allocator under a binding budget *)

\* avg CPC x 30 of a group, in cents (exact: the sum of the range times 15).
OneKeywordSpend(g) ==
    ((g.suggested_cpc_range[1] + g.suggested_cpc_range[2]) * 30) \div 2

\* C12: when the budget is positive but smaller than the estimated spend of
\* one keyword of the top-priority group (avg CPC x 30, the first of
\* prioritized_groups), the allocator returns
\* zero ad groups; and it never emits a group without keywords.
C12_TooSmallBudgetNoGroups ==
    alloc_pc = "done"
        => /\ (/\ budget > 0
               /\ prioritized_groups # <<>>
               /\ budget < OneKeywordSpend(prioritized_groups[1]))
                  => campaign.ad_groups = <<>>
           /\ \A i \in 1..Len(campaign.ad_groups) :
                 Len(campaign.ad_groups[i].keywords) >= 1

\* C12 witness: two groups, a positive budget one cent below the spend of one
\* keyword of the top-priority group, and the campaign has been built.
C12_Witness ==
    /\ alloc_pc = "done"
    /\ Len(ad_groups) >= 2
    /\ budget > 0
    /\ prioritized_groups # <<>>
    /\ budget = OneKeywordSpend(prioritized_groups[1]) - 1
    /\ campaign.ad_groups = <<>>

----------------------------------------------------------------------------
(* KeywordResearcher._create_keyword_data_with_estimates *)
(* (collectors/keyword_researcher.py) *)

\* random.randint(lo, hi) can return every integer of lo..hi; the model draws
\* from DrawSteps + 1 evenly spaced values of the range, both ends included.
DrawSteps == 3

Randint(lo, hi) == {lo + (k * (hi - lo)) \div DrawSteps : k \in 0..DrawSteps}

EstimateVolumeWords == {<<"a","i">>, <<"s","o","f","t","w","a","r","e">>, <<"p","l","a","t","f","o","r","m">>, <<"t","o","o","l">>}
EstimateHighWords == {<<"b","u","y">>, <<"p","u","r","c","h","a","s","e">>, <<"s","e","r","v","i","c","e">>, <<"c","o","m","p","a","n","y">>, <<"p","r","o","v","i","d","e","r">>}
EstimateMediumWords == {<<"s","o","f","t","w","a","r","e">>, <<"p","l","a","t","f","o","r","m">>, <<"s","o","l","u","t","i","o","n">>, <<"t","o","o","l">>}

\* The values random.randint is called with for this keyword.
EstimatedVolumeRange(keyword) ==
    LET word_count == WordCount(keyword)
        keyword_lower == LowerStr(keyword)
    IN  IF word_count <= 2
        THEN IF ContainsAny(keyword_lower, EstimateVolumeWords)
             THEN <<2000, 8000>> ELSE <<1000, 5000>>
        ELSE IF word_count = 3 THEN <<500, 3000>>
        ELSE <<200, 1500>>

\* competition, cpc_low, cpc_high (cents)
EstimatedCompetition(keyword) ==
    LET keyword_lower == LowerStr(keyword) IN
    IF ContainsAny(keyword_lower, EstimateHighWords) THEN <<"high", 150, 400>>
    ELSE IF ContainsAny(keyword_lower, EstimateMediumWords) THEN <<"medium", 75, 250>>
    ELSE <<"low", 25, 150>>

\* The dict the function returns when randint returned search_volume.
KeywordData(keyword, search_volume) ==
    LET c == EstimatedCompetition(keyword) IN
    [keyword |-> Strip(keyword), search_volume |-> search_volume,
     competition |-> c[1], cpc_low |-> c[2], cpc_high |-> c[3]]

EstimateTerms ==
    {<<"a","i"," ","t","o","o","l">>, <<"k","p","i">>, <<"b","i"," ","r","e","p","o","r","t","i","n","g"," ","s","o","f","t","w","a","r","e">>, <<"b","u","y"," ","b","i"," ","s","o","f","t","w","a","r","e"," ","n","e","a","r"," ","m","e">>,
     <<" ","D","a","t","a"," ","P","l","a","t","f","o","r","m"," ">>, <<"a","n","a","l","y","t","i","c","s"," ","s","e","r","v","i","c","e"," ","c","o","m","p","a","n","y">>}

EstimatedVolumeRangeOf == [t \in EstimateTerms |-> EstimatedVolumeRange(t)]

\* researcher._create_keyword_data_with_estimates(keyword), in a first run and
\* in a second run on the same keyword.
CreateKeywordDataWithEstimates ==
    /\ est_pc \in {"start", "first"}
    /\ \E v \in Randint(EstimatedVolumeRangeOf[est_keyword][1],
                        EstimatedVolumeRangeOf[est_keyword][2]) :
          IF est_pc = "start"
          THEN /\ est_first' = <<KeywordData(est_keyword, v)>>
               /\ est_pc' = "first"
               /\ UNCHANGED est_second
          ELSE /\ est_second' = <<KeywordData(est_keyword, v)>>
               /\ est_pc' = "second"
               /\ UNCHANGED est_first
    /\ UNCHANGED est_keyword
    /\ UNCHANGED exceptEst

NextEstimate == CreateKeywordDataWithEstimates

InitEstimate ==
    /\ est_keyword \in EstimateTerms
    /\ est_pc = "start"
    /\ est_first = <<>> /\ est_second = <<>>
    /\ AllocOff /\ ClsOff /\ ScOff /\ DdOff /\ BidOff /\ PrOff /\ RbOff /\ PmOff

SpecEstimate == InitEstimate /\ [][NextEstimate]_vars

\* C13: two runs on the same keyword text produce identical estimated
\* metrics (search volume, CPC, competition): no estimate is a random draw.
C13_EstimatesDeterministic ==
    est_pc = "second" => est_second = est_first

----------------------------------------------------------------------------
(* HuggingFaceProcessor.process_raw_keywords *)

MaxProc == 3

\* if len(high_quality_keywords) > 200
KeywordCap == 200

\* A numeric field of a raw dict: a number (or a numeral), absent, or a value
\* int() / float() cannot parse.
Num(n) == [kind |-> "num", val |-> n]
Absent == [kind |-> "absent", val |-> 0]
Unparsable == [kind |-> "text", val |-> 0]

\* competition <<>> is a dict without the key.
ProcRecord(keyword, search_volume, competition, cpc_low, cpc_high) ==
    [keyword |-> keyword, search_volume |-> search_volume,
     competition |-> competition, cpc_low |-> cpc_low, cpc_high |-> cpc_high]

\* Keyword(term, metrics, suggested_match_type) with relevance_score
ProcessedKeyword(term, vol, low, high, comp, match, score) ==
    [term |-> term, vol |-> vol, low |-> low, high |-> high, comp |-> comp,
     suggested_match_type |-> match, score |-> score]

\* kw_data.get(key, default) for a numeric key: the value or the default.
GetNum(field, default) == IF field.kind = "absent" THEN default ELSE field.val

\* competition_str = kw_data.get('competition', 'medium').lower()
ParseCompetition(competition) ==
    LET competition_str == IF competition = <<>> THEN <<"m","e","d","i","u","m">>
                           ELSE LowerStr(competition)
    IN  IF competition_str = <<"l","o","w">> THEN "low"
        ELSE IF competition_str = <<"h","i","g","h">> THEN "high"
        ELSE "medium"

\* _suggest_match_type
SuggestMatchType(keyword_text, search_volume) ==
    LET word_count == WordCount(keyword_text) IN
    IF ContainsAny(LowerStr(keyword_text), {<<"c","u","b","e","h","q">>, <<"c","u","b","e"," ","h","q">>}) THEN "exact"
    ELSE IF word_count <= 2 /\ search_volume > 2000 THEN "phrase"
    ELSE IF word_count >= 4 THEN "exact"
    ELSE "broad"

\* The `for kw_data in raw_keywords` loop: the processed keywords, or the
\* ValueError of int() / float() on a value that is not a number.
RECURSIVE ProcessLoop(_, _, _)
ProcessLoop(acc, raw, mv) ==
    IF raw = <<>> THEN [status |-> "ok", keywords |-> acc]
    ELSE LET kw_data == Head(raw)
             keyword_text == Strip(kw_data.keyword)
             search_volume == GetNum(kw_data.search_volume, 0)
         IN  IF kw_data.search_volume.kind = "text"
             THEN [status |-> "raised", keywords |-> <<>>]
             ELSE IF search_volume < mv
             THEN ProcessLoop(acc, Tail(raw), mv)
             ELSE IF kw_data.cpc_low.kind = "text" \/ kw_data.cpc_high.kind = "text"
             THEN [status |-> "raised", keywords |-> <<>>]
             ELSE ProcessLoop(
                      Append(acc,
                             ProcessedKeyword(keyword_text, search_volume,
                                              GetNum(kw_data.cpc_low, 50),
                                              GetNum(kw_data.cpc_high, 200),
                                              ParseCompetition(kw_data.competition),
                                              SuggestMatchType(keyword_text, search_volume),
                                              Frac(0, 1))),
                      Tail(raw), mv)

\* relevance_score >= 0.4
HighQuality(kw) == FracLeq(Frac(4, 10), kw.score)

\* process_raw_keywords: the loop, the scores, the sort by relevance, the
\* relevance threshold and the cap.
ProcessRawKeywords(raw, mv) ==
    LET processed == ProcessLoop(<<>>, raw, mv) IN
    IF processed.status = "raised" THEN processed
    ELSE LET scored == ScoreBatch(processed.keywords) IN
         IF scored.status = "raised" THEN [status |-> "raised", keywords |-> <<>>]
         ELSE LET high_quality == SelectSeq(SortByRelevance(scored.keywords), HighQuality)
              IN  [status |-> "ok",
                   keywords |-> SubSeq(high_quality, 1, Min(Len(high_quality), KeywordCap))]

ProcPool ==
    {ProcRecord(<<"c","u","b","e","h","q">>, Num(1200), <<>>, Absent, Absent),
     ProcRecord(<<"b","u","s","i","n","e","s","s"," ","i","n","t","e","l","l","i","g","e","n","c","e"," ","p","l","a","t","f","o","r","m">>, Num(8000), <<"m","e","d","i","u","m">>, Absent, Absent),
     ProcRecord(<<"b","u","y"," ","b","i"," ","s","o","f","t","w","a","r","e"," ","n","e","a","r"," ","m","e">>, Num(300), <<"h","i","g","h">>, Absent, Absent),
     ProcRecord(<<" ","k","p","i"," ">>, Num(2000), <<"L","o","w">>, Num(100), Num(300)),
     ProcRecord(<<"o","k","r">>, Num(5000), <<"H","I","G","H">>, Absent, Absent),
     ProcRecord(<<"k","p","i">>, Unparsable, <<>>, Absent, Absent),
     ProcRecord(<<"c","u","b","e","h","q">>, Num(1200), <<>>, Unparsable, Absent)}

\* processor.process_raw_keywords(raw_keywords, min_volume)
ProcessKeywords ==
    /\ pr_pc = "start"
    /\ pr_result' = ProcessRawKeywords(pr_raw, pr_min_volume)
    /\ pr_pc' = IF pr_result'.status = "raised" THEN "raised" ELSE "done"
    /\ UNCHANGED <<pr_raw, pr_min_volume>>
    /\ UNCHANGED exceptPr

NextProcess == ProcessKeywords

\* min_search_volume: the Streamlit minimum and the default.
ProcMinVolumes == {100, 500}

InitProcess ==
    /\ pr_raw \in SeqsUpTo(ProcPool, MaxProc)
    /\ pr_min_volume \in ProcMinVolumes
    /\ pr_pc = "start"
    /\ pr_result = [status |-> "none", keywords |-> <<>>]
    /\ AllocOff /\ ClsOff /\ ScOff /\ DdOff /\ BidOff /\ EstOff /\ RbOff /\ PmOff

SpecProcess == InitProcess /\ [][NextProcess]_vars

\* Every numeric field of the record is a number or absent.
Parsable(r) ==
    /\ r.search_volume.kind # "text"
    /\ r.cpc_low.kind # "text"
    /\ r.cpc_high.kind # "text"

\* C14: the scorer is one-to-one: for qualified records (here: a volume of at
\* least 5000, which passes the threshold of every provenance, and parsable
\* numbers) process_raw_keywords returns exactly one scored keyword per
\* record.
C14_ScorerOneToOne ==
    (/\ pr_pc \in {"done", "raised"}
     /\ \A i \in 1..Len(pr_raw) :
           Parsable(pr_raw[i]) /\ pr_raw[i].search_volume.val >= 5000)
        => /\ pr_result.status = "ok"
           /\ Len(pr_result.keywords) = Len(pr_raw)

\* C16: a record whose search_volume, cpc_low or cpc_high cannot be parsed
\* as a number is processed with the default of that field:
\* process_raw_keywords does not raise on such a batch.
C16_UnparsableNumberFallsBack ==
    (/\ pr_pc \in {"done", "raised"}
     /\ \E i \in 1..Len(pr_raw) : ~Parsable(pr_raw[i]))
        => pr_result.status = "ok"

----------------------------------------------------------------------------
(* Hard overrides of the classifier *)

\* The brand terms and the competitor vocabulary that both strategies name.
HardBrandWords == ZeroShotBrandWords \cap BrandWords

HardCompetitorWords == ZeroShotCompetitorWords \cap CompetitorWords

HasBrandTerm(kw) == ContainsAny(LowerStr(kw.term), HardBrandWords)

HasCompetitorTerm(kw) == ContainsAny(LowerStr(kw.term), HardCompetitorWords)

HasBrandTermOf == [kw \in ClsPool |-> HasBrandTerm(kw)]

HasCompetitorTermOf == [kw \in ClsPool |-> HasCompetitorTerm(kw)]

\* C15: in the groups create_ad_groups_with_llm returns, under the
\* zero-shot and under the rule-based strategy alike, a keyword with a
\* brand term stands in a group of the Brand bucket and a keyword with
\* competitor vocabulary (and no brand term) stands in a group of the
\* Competitor bucket, whatever other vocabulary the keyword contains.
C15_HardOverridesWin ==
    cls_pc = "returned"
        => \A g \in 1..Len(cls_result) :
              \A k \in 1..Len(cls_result[g].keywords) :
                 LET kw == cls_result[g].keywords[k] IN
                 /\ HasBrandTermOf[kw]
                       => cls_result[g].intent_category = I_Brand
                 /\ (HasCompetitorTermOf[kw] /\ ~HasBrandTermOf[kw])
                       => cls_result[g].intent_category = I_Competitor

----------------------------------------------------------------------------
(* The three-keyword scenario *)

\* The three raw records of the scenario.
ScenarioRecords ==
    {ProcRecord(<<"c","u","b","e","h","q">>, Num(1200), <<>>, Absent, Absent),
     ProcRecord(<<"b","u","s","i","n","e","s","s"," ","i","n","t","e","l","l","i","g","e","n","c","e"," ","p","l","a","t","f","o","r","m">>, Num(8000), <<"m","e","d","i","u","m">>, Absent, Absent),
     ProcRecord(<<"b","u","y"," ","b","i"," ","s","o","f","t","w","a","r","e"," ","n","e","a","r"," ","m","e">>, Num(300), <<"h","i","g","h">>, Absent, Absent)}

\* kws has a keyword of this term, match type (or any, when match is "")
\* that the rule chain assigns to this bucket.
InBucket(kws, term, match, bucket) ==
    \E i \in 1..Len(kws) :
        /\ kws[i].term = term
        /\ match # "" => kws[i].suggested_match_type = match
        /\ RuleBucket(kws[i]) = bucket

\* C17: for the three scenario records, in any order, the keywords
\* process_raw_keywords hands to the classifier contain all three, "cubehq"
\* with match type exact and assigned to Brand Terms, "buy bi software near
\* me" to the Commercial-Intent bucket and "business intelligence platform"
\* to the Core-Category bucket (three ad groups, which a large enough budget
\* leaves untouched).
C17_ScenarioThreeGroups ==
    (/\ pr_pc \in {"done", "raised"}
     /\ Len(pr_raw) = 3
     /\ {pr_raw[i] : i \in 1..3} = ScenarioRecords)
        => /\ pr_result.status = "ok"
           /\ Len(pr_result.keywords) = 3
           /\ InBucket(pr_result.keywords, <<"c","u","b","e","h","q">>, "exact", N_Brand)
           /\ InBucket(pr_result.keywords, <<"b","u","y"," ","b","i"," ","s","o","f","t","w","a","r","e"," ","n","e","a","r"," ","m","e">>, "", N_Commercial)
           /\ InBucket(pr_result.keywords, <<"b","u","s","i","n","e","s","s"," ","i","n","t","e","l","l","i","g","e","n","c","e"," ","p","l","a","t","f","o","r","m">>, "", N_CoreBI)

----------------------------------------------------------------------------
(* The spend cap of the bid suggestions *)

\* C18: the running total of estimated spend of the accepted suggestions is
\* at most 0.9 of the shopping budget after every acceptance; the total only
\* grows, so it is so exactly when the total the loop ends with is.
C18_SpendWithinBudgetFraction ==
    (bid_pc = "done" /\ suggestions # <<>>)
        => 10 * total_suggested_spend <= 9 * 1000 * shopping_budget

----------------------------------------------------------------------------
(* Shape of the allocator's output under a binding budget *)

\* t is a truncated copy of g: the name of g with the suffix, and fewer (but
\* some) keywords, all of them keywords of g.
IsTruncatedCopy(t, g) ==
    /\ t.name = g.name \o OptimizedSuffix
    /\ Len(t.keywords) >= 1
    /\ Len(t.keywords) < Len(g.keywords)
    /\ \A i \in 1..Len(t.keywords) :
          \E j \in 1..Len(g.keywords) : t.keywords[i] = g.keywords[j]

\* The first k priority-ordered groups fit the budget whole and group k + 1
\* is the first that overflows.
FirstOverflowAfter(k) ==
    /\ k < Len(prioritized_groups)
    /\ \A m \in 1..k :
          NaiveEstimatedSpend(SubSeq(prioritized_groups, 1, m)) <= budget
    /\ NaiveEstimatedSpend(SubSeq(prioritized_groups, 1, k + 1)) > budget

\* C19: when the total estimated spend exceeds the budget, the groups of the
\* campaign are the first k priority-ordered groups, whole, and then either
\* nothing or exactly one truncated copy of group k + 1, the first group
\* that overflows; nothing ranked after that group is in the output. (With
\* no groups at all there is nothing to order and the output is empty.)
C19_PrefixThenOneTruncated ==
    (alloc_pc = "done" /\ NaiveEstimatedSpend(ad_groups) > budget)
        => IF ad_groups = <<>> THEN campaign.ad_groups = <<>> ELSE
           \E k \in 0..Len(prioritized_groups) :
              /\ FirstOverflowAfter(k)
              /\ Len(campaign.ad_groups) \in {k, k + 1}
              /\ \A i \in 1..k : campaign.ad_groups[i] = prioritized_groups[i]
              /\ Len(campaign.ad_groups) = k + 1
                    => IsTruncatedCopy(campaign.ad_groups[k + 1],
                                       prioritized_groups[k + 1])

\* C19 witness: a binding budget, the first group taken whole, the second
\* truncated, and a third group that would fit what is left of the budget
\* but is not in the output.
C19_Witness ==
    /\ alloc_pc = "done" /\ NaiveEstimatedSpend(ad_groups) > budget
    /\ Len(prioritized_groups) = 3
    /\ Len(campaign.ad_groups) = 2
    /\ campaign.ad_groups[1] = prioritized_groups[1]
    /\ IsTruncatedCopy(campaign.ad_groups[2], prioritized_groups[2])
    /\ NaiveEstimatedSpend(campaign.ad_groups)
          + NaiveEstimatedSpend(<<prioritized_groups[3]>>) <= budget

----------------------------------------------------------------------------
(* The truncated group *)

\* avg_cpc x 30 of a group in cents, from its range.
AvgCpcTimes30(g) ==
    ((g.suggested_cpc_range[1] + g.suggested_cpc_range[2]) * 30) \div 2

\* t holds n keywords of g, each taken once, and none of the keywords of g
\* left out has a higher relevance than one that was taken.
IsTopByRelevance(t, g) ==
    \E pos \in [1..Len(t.keywords) -> 1..Len(g.keywords)] :
        /\ \A i, j \in 1..Len(t.keywords) : i /= j => pos[i] /= pos[j]
        /\ \A i \in 1..Len(t.keywords) : t.keywords[i] = g.keywords[pos[i]]
        /\ \A i \in 1..Len(t.keywords) :
              \A j \in 1..Len(g.keywords) :
                  (\A i2 \in 1..Len(t.keywords) : pos[i2] /= j)
                      => FracLeq(g.keywords[j].score, t.keywords[i].score)

\* The output ends with a truncated copy of priority-ordered group k + 1
\* after k whole groups.
TruncatedAt(k) ==
    /\ alloc_pc = "done"
    /\ k < Len(prioritized_groups)
    /\ Len(campaign.ad_groups) = k + 1
    /\ campaign.ad_groups[k + 1].name
          = prioritized_groups[k + 1].name \o OptimizedSuffix

\* C20: the truncated group has the N highest-relevance keywords of the
\* original group, N being the largest integer with N x avg_cpc x 30 within
\* the remaining budget (1 <= N < original count); it has the original
\* intent category and suggested_cpc_range and the original name with the
\* suffix, and the original group is still in the input list, unchanged.
C20_TruncatedGroupTopN ==
    \A k \in 0..Len(prioritized_groups) :
        TruncatedAt(k) =>
            LET t == campaign.ad_groups[k + 1]
                g == prioritized_groups[k + 1]
                N == Len(t.keywords)
                remaining ==
                    budget - NaiveEstimatedSpend(SubSeq(prioritized_groups, 1, k))
            IN  /\ N >= 1 /\ N < Len(g.keywords)
                /\ N * AvgCpcTimes30(g) <= remaining
                /\ (N + 1) * AvgCpcTimes30(g) > remaining
                /\ IsTopByRelevance(t, g)
                /\ t.intent_category = g.intent_category
                /\ t.suggested_cpc_range = g.suggested_cpc_range
                /\ \E j \in 1..Len(ad_groups) : ad_groups[j] = g

\* C20 witness: a group of three keywords truncated to two, which are not
\* its first two keywords: the lower-relevance first keyword was left out.
C20_Witness ==
    \E k \in 0..Len(prioritized_groups) :
        /\ TruncatedAt(k)
        /\ Len(prioritized_groups[k + 1].keywords) = 3
        /\ Len(campaign.ad_groups[k + 1].keywords) = 2
        /\ campaign.ad_groups[k + 1].keywords
              /= SubSeq(prioritized_groups[k + 1].keywords, 1, 2)

----------------------------------------------------------------------------
(* Order in which the allocator considers the groups *)

\* The position of the group of this name in the input list.
InputPosition(name) == CHOOSE i \in 1..Len(ad_groups) : ad_groups[i].name = name

\* C21: when the budget is binding, the list the selection loop walks holds
\* the input groups, each once, in descending ROAS-potential score (the
\* value _calculate_ad_group_roas_score returns), and groups of equal score
\* in the order of the input list.
C21_DescendingRoasStable ==
    (alloc_pc \in {"loop", "return", "done"} /\ prioritized_groups # <<>>)
        => /\ Len(prioritized_groups) = Len(ad_groups)
           /\ \A i \in 1..Len(ad_groups) :
                 \E j \in 1..Len(prioritized_groups) :
                    prioritized_groups[j] = ad_groups[i]
           /\ \A i, j \in 1..Len(prioritized_groups) :
                 i < j =>
                    LET si == AdGroupRoasScore(prioritized_groups[i])
                        sj == AdGroupRoasScore(prioritized_groups[j])
                    IN  \/ si > sj
                        \/ /\ si = sj
                           /\ InputPosition(prioritized_groups[i].name)
                                 < InputPosition(prioritized_groups[j].name)

\* C21 witness: the loop has walked a list in which a group that came last
\* in the input is first, and two groups of equal score follow it in their
\* input order.
C21_Witness ==
    /\ alloc_pc = "done" /\ Len(prioritized_groups) = 3
    /\ prioritized_groups[1] = ad_groups[3]
    /\ prioritized_groups[2] = ad_groups[1]
    /\ prioritized_groups[3] = ad_groups[2]
    /\ AdGroupRoasScore(ad_groups[1]) = AdGroupRoasScore(ad_groups[2])

----------------------------------------------------------------------------
(* The rule chain on its own: _create_enhanced_rule_based_groups applied   *)
(* to short keyword lists that reach every rule.                            *)

MaxRule == 2

\* processor._create_enhanced_rule_based_groups(keywords, max_groups) with
\* the default max_groups
RuleBasedGrouping ==
    /\ rb_pc = "start"
    /\ rb_groups' = RuleBasedGroups(rb_keywords, 15)
    /\ rb_pc' = "done"
    /\ UNCHANGED rb_keywords
    /\ UNCHANGED exceptRb

NextRule == RuleBasedGrouping

InitRule ==
    /\ rb_keywords \in SeqsUpTo(RulePool, MaxRule)
    /\ rb_pc = "start"
    /\ rb_groups = <<>>
    /\ AllocOff /\ ClsOff /\ ScOff /\ DdOff /\ BidOff /\ EstOff /\ PrOff /\ PmOff

SpecRule == InitRule /\ [][NextRule]_vars

\* The rules in priority order, as conditions on one keyword.
RuleMatches(r, kw) ==
    LET t == LowerStr(kw.term) IN
    CASE r = 1 -> ContainsAny(t, BrandContext)
      [] r = 2 -> ContainsAny(t, LocationWords) \/ Contains(t, <<" ","i","n"," ">>)
      [] r = 3 -> ContainsAny(t, CommercialWords)
      [] r = 4 -> ContainsAny(t, CoreBIWords)
      [] r = 5 -> ContainsAny(t, DataWords)
      [] r = 6 -> WordCount(kw.term) >= 4 \/ (kw.vol < 1000 /\ kw.comp = "low")
      [] r = 7 -> ContainsAny(t, CompetitorWords)

\* The bucket and the intent category of each rule.
PriorityBuckets ==
    <<N_Brand, N_Location, N_Commercial, N_CoreBI, N_DataAnalytics,
      N_LongTail, N_Competitive>>

PriorityIntents ==
    <<I_Brand, I_Location, I_Commercial, I_Category, I_Product, I_LongTail,
      I_Competitor>>

MatchingRulesOf == [kw \in RulePool |-> {r \in 1..7 : RuleMatches(r, kw)}]

\* The bucket and intent of the first matching rule, or of the fallback by
\* volume.
ExpectedGroup(kw) ==
    LET rs == MatchingRulesOf[kw] IN
    IF rs # {}
    THEN LET r == CHOOSE x \in rs : \A y \in rs : x <= y
         IN  <<PriorityBuckets[r], PriorityIntents[r]>>
    ELSE IF kw.vol > 2000 THEN <<N_CoreBI, I_Category>>
    ELSE <<N_DataAnalytics, I_Product>>

\* C22: the rule-based classification puts every keyword in the group of the
\* first rule that matches it, in the order brand, location, commercial,
\* core category, product/solution, long-tail, competitor, and else in the
\* fallback group by volume; the keyword is in no other group.
C22_FirstMatchingRuleWins ==
    rb_pc = "done"
        => \A k \in 1..Len(rb_keywords) :
              /\ Occurrences(rb_keywords[k], rb_groups)
                    = CountIn(rb_keywords[k], rb_keywords)
              /\ \A g \in 1..Len(rb_groups) :
                    CountIn(rb_keywords[k], rb_groups[g].keywords) > 0
                        => /\ rb_groups[g].name = ExpectedGroup(rb_keywords[k])[1]
                           /\ rb_groups[g].intent_category
                                 = ExpectedGroup(rb_keywords[k])[2]

\* C22 witness: a keyword that matches the brand, location, commercial and
\* long-tail rules is in Brand Terms, next to a keyword no rule matches,
\* which is in the fallback group.
C22_Witness ==
    /\ rb_pc = "done" /\ Len(rb_keywords) = 2 /\ Len(rb_groups) = 2
    /\ MatchingRulesOf[rb_keywords[1]] = {1, 2, 3, 6}
    /\ MatchingRulesOf[rb_keywords[2]] = {}
    /\ rb_groups[1].name = N_Brand /\ rb_groups[1].keywords = <<rb_keywords[1]>>
    /\ rb_groups[2].keywords = <<rb_keywords[2]>>

----------------------------------------------------------------------------
(* Order of the keywords within a group *)

\* C23: in every AdGroup create_ad_groups_with_llm returns, whatever the
\* order of the input list, the keywords are in descending relevance_score
\* order and keywords of equal score are in their input order.
C23_GroupKeywordsByRelevance ==
    cls_pc = "returned"
        => \A g \in 1..Len(cls_result) :
              \A i, j \in 1..Len(cls_result[g].keywords) :
                 i < j =>
                    LET a == cls_result[g].keywords[i]
                        b == cls_result[g].keywords[j]
                    IN  \/ FracLess(b.score, a.score)
                        \/ /\ FracEq(a.score, b.score)
                           /\ \E m, n \in 1..Len(cls_keywords) :
                                 /\ m < n
                                 /\ cls_keywords[m] = a
                                 /\ cls_keywords[n] = b

----------------------------------------------------------------------------
(* No empty ad group *)

AllNonEmpty(groups) ==
    \A i \in 1..Len(groups) : Len(groups[i].keywords) >= 1

\* C24: every AdGroup the classifier returns, under either strategy, and
\* every AdGroup of the campaign the allocator builds from them, a truncated
\* group included, has at least one keyword.
C24_NoEmptyAdGroup ==
    /\ cls_pc = "returned" => AllNonEmpty(cls_result)
    /\ alloc_pc \in {"loop", "return"} => AllNonEmpty(optimized_groups)
    /\ alloc_pc = "done" => AllNonEmpty(campaign.ad_groups)

\* C24 witness: a classification that left buckets empty and returned two
\* or more groups, and a campaign built from them under a binding budget
\* that ends with a truncated group.
C24_Witness ==
    /\ alloc_pc = "done"
    /\ Len(cls_result) >= 2 /\ Len(cls_keywords) = MaxClsKeywords
    /\ IsTruncatedOutput
    /\ campaign.ad_groups # <<>>

----------------------------------------------------------------------------
(* Components of the relevance score *)

\* volume_score = (average_monthly_searches / max_volume) * 0.3, in
\* hundredths.
VolumeScore(kw, max_volume) == Frac(30 * kw.vol, max_volume)

\* cpc_efficiency = max(0, (max_cpc - avg_cpc) / max_cpc) * 0.2 with
\* avg_cpc = (bid_low + bid_high) / 2, in hundredths.
CpcEfficiency(kw, max_cpc) ==
    Frac(20 * Max(0, 2 * max_cpc - kw.low - kw.high), 2 * max_cpc)

\* C25: in a batch that _calculate_relevance_scores has scored, every
\* component of every keyword's score is within its maximum before the sum
\* is taken: relevance bonus <= 0.3, volume <= 0.3, competition <= 0.2 and
\* CPC efficiency <= 0.2.
C25_ComponentsCapped ==
    (sc_pc = "scored" /\ sc_result.status = "ok")
        => \A i \in 1..Len(sc_keywords) :
              LET kw == sc_keywords[i] IN
              /\ RelevanceBonusOf[kw.term] <= 30
              /\ FracLeq(VolumeScore(kw, BatchMaxVolume(sc_keywords)), Frac(30, 1))
              /\ CompetitionScore(kw.comp) <= 20
              /\ FracLeq(CpcEfficiency(kw, BatchMaxCpc(sc_keywords)), Frac(20, 1))

----------------------------------------------------------------------------
(* Degenerate batches *)

\* C29: _calculate_relevance_scores returns, without raising, for every
\* non-empty batch, the batches in which every volume is 0 or every
\* bid_high is 0 included.
C29_ScoringNeverRaises ==
    (sc_pc = "scored" /\ sc_keywords # <<>>) => sc_result.status = "ok"

----------------------------------------------------------------------------
(* PMaxCampaignGenerator.create_asset_group_themes *)

ThemeCap == 15

N_CategoryThemes == "Product Category Themes"
N_UsecaseThemes == "Use-case Based Themes"
N_DemographicThemes == "Demographic Themes"
N_SeasonalThemes == "Seasonal/Event-Based Themes"

ThemeNames ==
    {N_CategoryThemes, N_UsecaseThemes, N_DemographicThemes, N_SeasonalThemes}

\* category_terms, usecase_terms, demographic_terms, seasonal_terms
category_terms == {<<"p","l","a","t","f","o","r","m">>, <<"s","o","f","t","w","a","r","e">>, <<"t","o","o","l","s">>, <<"a","i">>, <<"m","a","r","k","e","t","i","n","g">>, <<"a","n","a","l","y","t","i","c","s">>, <<"d","a","s","h","b","o","a","r","d">>, <<"r","e","p","o","r","t","i","n","g">>, <<"a","u","t","o","m","a","t","i","o","n">>}
usecase_terms == {<<"a","u","t","o","m","a","t","i","o","n">>, <<"i","n","s","i","g","h","t","s">>, <<"c","a","m","p","a","i","g","n","s">>, <<"s","o","c","i","a","l"," ","m","e","d","i","a">>, <<"a","d","v","e","r","t","i","s","i","n","g">>, <<"l","e","a","d"," ","g","e","n","e","r","a","t","i","o","n">>, <<"c","u","s","t","o","m","e","r"," ","s","e","r","v","i","c","e">>}
demographic_terms == {<<"e","n","t","e","r","p","r","i","s","e">>, <<"b","2","b">>, <<"s","t","a","r","t","u","p">>, <<"s","m","a","l","l"," ","b","u","s","i","n","e","s","s">>, <<"c","o","r","p","o","r","a","t","e">>}
seasonal_terms == {<<"2","0","2","5">>, <<"q","4">>, <<"f","e","s","t","i","v","a","l">>, <<"h","o","l","i","d","a","y">>, <<"b","a","c","k"," ","t","o"," ","s","c","h","o","o","l">>}

ThemeVocabulary(name) ==
    CASE name = N_CategoryThemes -> category_terms
      [] name = N_UsecaseThemes -> usecase_terms
      [] name = N_DemographicThemes -> demographic_terms
      [] name = N_SeasonalThemes -> seasonal_terms

\* t = kw.term.lower(); any(ct in t for ct in <vocabulary>), for each theme.
ThemesMatched(term) ==
    {name \in ThemeNames : ContainsAny(LowerStr(term), ThemeVocabulary(name))}

\* Keywords of the theme extractor's inputs.
T_AiTools == Keyword(<<"A","I"," ","T","o","o","l","s">>, 4000, 80, 240, "medium", Frac(70, 100))
T_aitools == Keyword(<<"a","i"," ","t","o","o","l","s">>, 2500, 80, 240, "medium", Frac(60, 100))
T_automation == Keyword(<<"m","a","r","k","e","t","i","n","g"," ","a","u","t","o","m","a","t","i","o","n">>, 6000, 120, 360, "high", Frac(50, 100))
T_b2b == Keyword(<<"b","2","b"," ","i","n","s","i","g","h","t","s">>, 1500, 90, 200, "low", Frac(80, 100))
T_enterprise == Keyword(<<"e","n","t","e","r","p","r","i","s","e"," ","r","e","p","o","r","t","i","n","g"," ","2","0","2","5">>, 1200, 150, 400, "medium", Frac(95, 100))

ThemePool == {T_AiTools, T_aitools, T_automation, T_b2b, T_enterprise, K_kpi}

FillerLetters ==
    <<"a", "b", "c", "d", "e", "f", "g", "h", "j", "k", "l", "m", "n", "o",
      "p", "q">>

\* n keywords "tools a", "tools b", ... of relevance 0.9: distinct terms of
\* the product category vocabulary alone.
Fillers(n) ==
    [i \in 1..n |->
        Keyword(<<"t","o","o","l","s"," ">> \o <<FillerLetters[i]>>, 1000, 50, 150, "medium",
                Frac(90, 100))]

FillCounts == {0, 14, 15, 16}
TopNs == {0, 1, 2, 50}
MaxThemeKeywords == 2

ThemeInputs ==
    {Fillers(n) \o s : n \in FillCounts, s \in SeqsUpTo(ThemePool, MaxThemeKeywords)}

ThemesMatchedOf ==
    [t \in {kw.term : kw \in ThemePool \cup ClsPool}
           \cup {Fillers(16)[i].term : i \in 1..16} |-> ThemesMatched(t)]

\* The terms, in order, of the keywords of `top` that a theme's vocabulary
\* matches: themes[name].append(kw.term).
RECURSIVE MatchingTerms(_, _)
MatchingTerms(top, name) ==
    IF top = <<>> THEN <<>>
    ELSE (IF name \in ThemesMatchedOf[Head(top).term]
          THEN <<Head(top).term>> ELSE <<>>)
         \o MatchingTerms(Tail(top), name)

RECURSIVE DedupExactFrom(_, _)
DedupExactFrom(dedup, v) ==
    IF v = <<>> THEN dedup
    ELSE IF \E i \in 1..Len(dedup) : dedup[i] = Head(v)
         THEN DedupExactFrom(dedup, Tail(v))
         ELSE DedupExactFrom(Append(dedup, Head(v)), Tail(v))

\* for term in v: low = term.lower(); if low not in seen: ... dedup.append(term)
RECURSIVE DedupIgnoringCaseFrom(_, _)
DedupIgnoringCaseFrom(dedup, v) ==
    IF v = <<>> THEN dedup
    ELSE IF \E i \in 1..Len(dedup) : LowerStr(dedup[i]) = LowerStr(Head(v))
         THEN DedupIgnoringCaseFrom(dedup, Tail(v))
         ELSE DedupIgnoringCaseFrom(Append(dedup, Head(v)), Tail(v))

\* dedup[:15]
CapTheme(dedup) == SubSeq(dedup, 1, Min(ThemeCap, Len(dedup)))

\* sorted(keywords, key=lambda k: k.relevance_score, reverse=True)[: self.top_n]
\* (top_n >= 0)
TopByRelevance(keywords, top_n) ==
    LET s == SortByRelevance(keywords) IN SubSeq(s, 1, Min(top_n, Len(s)))

\* create_asset_group_themes(keywords): the dict theme name -> terms, as a
\* function whose domain is the set of theme names that got a term.
AssetGroupThemes(keywords, top_n) ==
    IF keywords = <<>> THEN <<>>
    ELSE LET top_keywords == TopByRelevance(keywords, top_n)
             present == {name \in ThemeNames :
                            MatchingTerms(top_keywords, name) # <<>>}
         IN  [name \in present |->
                 CapTheme(DedupIgnoringCaseFrom(<<>>,
                              MatchingTerms(top_keywords, name)))]

CreateAssetGroupThemes ==
    /\ pm_pc = "start"
    /\ themes' = AssetGroupThemes(pm_keywords, pm_top_n)
    /\ pm_pc' = "done"
    /\ UNCHANGED <<pm_keywords, pm_top_n>>
    /\ UNCHANGED exceptPm

NextThemes == CreateAssetGroupThemes

InitThemes ==
    /\ pm_keywords \in ThemeInputs
    /\ pm_top_n \in TopNs
    /\ pm_pc = "start"
    /\ themes = <<>>
    /\ AllocOff /\ ClsOff /\ ScOff /\ DdOff /\ BidOff /\ EstOff /\ PrOff /\ RbOff

SpecThemes == InitThemes /\ [][NextThemes]_vars

\* Keyword i of the input is one of the top_n by relevance_score: fewer than
\* top_n keywords have a higher score or the same score and an earlier place.
InTopN(i) ==
    Cardinality({j \in 1..Len(pm_keywords) :
                    \/ FracLess(pm_keywords[i].score, pm_keywords[j].score)
                    \/ j < i /\ FracEq(pm_keywords[i].score, pm_keywords[j].score)})
        < pm_top_n

ThemeHolds(name, term) ==
    name \in DOMAIN themes /\ \E m \in 1..Len(themes[name]) : themes[name][m] = term

ThemeHoldsIgnoringCase(name, term) ==
    /\ name \in DOMAIN themes
    /\ \E m \in 1..Len(themes[name]) : LowerStr(themes[name][m]) = LowerStr(term)

\* Every theme list has at most 15 terms, no two equal ignoring case, all of
\* them terms of top_n keywords; a theme is in the result only with a term.
ThemeListsWellFormed ==
    \A name \in DOMAIN themes :
        /\ name \in ThemeNames
        /\ themes[name] # <<>>
        /\ Len(themes[name]) <= ThemeCap
        /\ \A m, n \in 1..Len(themes[name]) :
              m # n => LowerStr(themes[name][m]) # LowerStr(themes[name][n])
        /\ \A m \in 1..Len(themes[name]) :
              \E i \in 1..Len(pm_keywords) :
                 InTopN(i) /\ pm_keywords[i].term = themes[name][m]

\* A theme none of the top_n keywords matches is absent from the result.
UnmatchedThemeAbsent ==
    \A name \in DOMAIN themes :
        \E i \in 1..Len(pm_keywords) :
           InTopN(i) /\ name \in ThemesMatchedOf[pm_keywords[i].term]

\* C27 (as stated): every theme list has at most 15 terms, no two equal
\* ignoring case, only terms of the top_n keywords by relevance_score; a
\* top_n keyword matching several theme vocabularies appears in each of
\* those themes; a theme with no matching keyword is absent.
C27_KeywordInEveryMatchingTheme ==
    pm_pc = "done"
        => /\ ThemeListsWellFormed
           /\ UnmatchedThemeAbsent
           /\ \A i \in 1..Len(pm_keywords) :
                 InTopN(i) =>
                    \A name \in ThemesMatchedOf[pm_keywords[i].term] :
                       ThemeHolds(name, pm_keywords[i].term)

\* C27 (amended): as above, except that a top_n keyword matching a theme
\* vocabulary appears in that theme, itself or as a term equal to it
\* ignoring case, unless the theme already holds 15 terms.
C27_ThemesCappedDedupedNonExclusive ==
    pm_pc = "done"
        => /\ ThemeListsWellFormed
           /\ UnmatchedThemeAbsent
           /\ \A i \in 1..Len(pm_keywords) :
                 InTopN(i) =>
                    \A name \in ThemesMatchedOf[pm_keywords[i].term] :
                       /\ name \in DOMAIN themes
                       /\ \/ ThemeHoldsIgnoringCase(name, pm_keywords[i].term)
                          \/ Len(themes[name]) = ThemeCap

\* C27 witness: sixteen product-category keywords and "marketing
\* automation" behind them; the category theme is full at 15 terms without
\* it and the use-case theme holds it, and no other theme is present.
C27_Witness ==
    /\ pm_pc = "done"
    /\ pm_top_n = 50
    /\ Len(pm_keywords) = 17 /\ pm_keywords[17] = T_automation
    /\ DOMAIN themes = {N_CategoryThemes, N_UsecaseThemes}
    /\ Len(themes[N_CategoryThemes]) = ThemeCap
    /\ ~ThemeHolds(N_CategoryThemes, T_automation.term)
    /\ themes[N_UsecaseThemes] = <<T_automation.term>>

----------------------------------------------------------------------------
(* Target CPA derived from the budget *)

\* calculate_target_cpa_from_budget(shopping_budget, estimated_conversions)
\* as suggest_product_bids calls it: cents, as a fraction.
DerivedTargetCpa(b) == Frac(b, EstimatedConversions(b))

\* C28: when suggest_product_bids derives the target CPA from the shopping
\* budget (target_cpa not supplied), the derived CPA is at least a fixed
\* positive floor, and so is positive, and the target CPC is above zero, for
\* every budget, zero included.
C28_DerivedCpaHasFloor ==
    (bid_pc = "done" /\ target_cpa = <<>> /\ product_keywords # <<>>)
        => /\ FracLess(Frac(0, 1), DerivedTargetCpa(shopping_budget))
           /\ TargetCpc(shopping_budget, target_cpa, tie_up) > 0

----------------------------------------------------------------------------
(* main(): deliverables 2 and 3 after deliverable 1 *)

\* processed_keywords of main(): the keywords of campaign.ad_groups, group
\* after group.
RECURSIVE KeywordsOfGroups(_)
KeywordsOfGroups(groups) ==
    IF groups = <<>> THEN <<>>
    ELSE Head(groups).keywords \o KeywordsOfGroups(Tail(groups))

\* PMaxCampaignGenerator(top_n=80)
MainTopN == 80

\* run_deliverable_2_pmax(processed_keywords), with the processed_keywords
\* that main() collects from the campaign of deliverable 1.
RunDeliverable2Pmax ==
    /\ alloc_pc = "done"
    /\ pm_pc = "off"
    /\ pm_keywords' = KeywordsOfGroups(campaign.ad_groups)
    /\ pm_top_n' = MainTopN
    /\ themes' = AssetGroupThemes(KeywordsOfGroups(campaign.ad_groups), MainTopN)
    /\ pm_pc' = "done"
    /\ UNCHANGED exceptPm

product_like_terms == {<<"s","o","f","t","w","a","r","e">>, <<"p","l","a","t","f","o","r","m">>, <<"t","o","o","l">>, <<"d","a","s","h","b","o","a","r","d">>, <<"r","e","p","o","r","t","i","n","g">>, <<"p","r","o","d","u","c","t">>}

\* [kw for kw in processed_keywords if any(t in kw.term.lower() for t in [...])]
ProductLike(kws) ==
    SelectSeq(kws, LAMBDA kw : ContainsAny(LowerStr(kw.term), product_like_terms))

\* shopping_ads_budget of the configuration, in cents.
MainShoppingBudgets == {30000, 200000}

\* target_cpa = max(50.0, shopping_budget * 0.02), in cents (the budgets are
\* multiples of 50 cents, so the product is whole).
MainTargetCpa(b) == Max(5000, (b * 2) \div 100)

\* run_deliverable_3_shopping(processed_keywords), after deliverable 2.
RunDeliverable3Shopping ==
    /\ alloc_pc = "done"
    /\ pm_pc = "done"
    /\ bid_pc = "off"
    /\ \E b \in MainShoppingBudgets, up \in BOOLEAN :
          LET product_like == ProductLike(pm_keywords)
              cpa == <<MainTargetCpa(b)>>
              out == SuggestBids(product_like, b, cpa, up)
          IN  /\ shopping_budget' = b
              /\ target_cpa' = cpa
              /\ tie_up' = up
              /\ product_keywords' = product_like
              /\ suggestions' = out.suggestions
              /\ total_suggested_spend' = out.total
    /\ bid_pc' = "done"
    /\ UNCHANGED exceptBid

NextMain == NextDeliverable1 \/ RunDeliverable2Pmax \/ RunDeliverable3Shopping

SpecMain == InitClassify /\ [][NextMain]_vars

TermsOf(kws) == {kws[i].term : i \in 1..Len(kws)}

\* The campaign was built from the classification of cls_keywords, and the
\* classifier kept every keyword.
CampaignOfWholeScoredSet ==
    /\ cls_pc = "returned" /\ alloc_pc = "done" /\ ad_groups = cls_result
    /\ Len(KeywordsOfGroups(cls_result)) = Len(cls_keywords)

\* C26: in main(), theme extraction and shopping-bid suggestion get the
\* entire scored keyword set (the one the classifier was given), whatever
\* the search budget and whatever the budget allocator kept: the keywords
\* passed to create_asset_group_themes are those of the scored set, and
\* the keywords passed to suggest_product_bids are its product-like ones.
C26_DeliverablesTakeWholeScoredSet ==
    CampaignOfWholeScoredSet
        => /\ pm_pc = "done" => TermsOf(pm_keywords) = TermsOf(cls_keywords)
           /\ bid_pc = "done"
                 => TermsOf(product_keywords) = TermsOf(ProductLike(cls_keywords))

----------------------------------------------------------------------------
(* Duplicate removal before the volume thresholds *)

\* Priority of the three provenances that have a volume threshold: verified,
\* untagged, estimated; 0 for a record of any other tag.
ProvenancePriority(kw) ==
    CASE kw.data_source = "wordstream_real" -> 1
      [] kw.data_source = "absent" -> 2
      [] kw.data_source = "estimated" -> 3
      [] OTHER -> 0

\* raw[i] is the highest-priority record of its normalized term: no record
\* of the same term has a higher priority, or the same and an earlier place.
HighestPriorityRecord(raw, i) ==
    /\ ProvenancePriority(raw[i]) # 0
    /\ \A j \in 1..Len(raw) :
          (/\ j # i
           /\ ProvenancePriority(raw[j]) # 0
           /\ KeywordTextOf[raw[j].keyword] = KeywordTextOf[raw[i].keyword])
              => \/ ProvenancePriority(raw[i]) < ProvenancePriority(raw[j])
                 \/ /\ ProvenancePriority(raw[i]) = ProvenancePriority(raw[j])
                    /\ i < j

\* verified >= 100, untagged >= 1000, estimated >= 5000
MeetsOwnMinimum(kw) ==
    kw.search_volume >= (CASE ProvenancePriority(kw) = 1 -> 100
                           [] ProvenancePriority(kw) = 2 -> 1000
                           [] OTHER -> 5000)

\* C30: every record that _consolidate_and_filter_keywords returns has a
\* non-empty normalized term, is the highest-priority record of that term in
\* the input (verified before untagged before estimated, first occurrence)
\* and meets the minimum volume of its own provenance; so a lower-priority
\* duplicate never stands in for a higher-priority record that fails its
\* threshold; and no two returned records have the same normalized term.
C30_DedupBeforeThreshold ==
    (dd_variant = "main" /\ dd_pc \in {"once", "twice"} /\ dd_once.status = "ok")
        => LET out == dd_once.keywords IN
           /\ \A o \in 1..Len(out) :
                 /\ KeywordTextOf[out[o].keyword] # <<>>
                 /\ \E i \in 1..Len(raw_keywords) :
                       /\ raw_keywords[i] = out[o]
                       /\ HighestPriorityRecord(raw_keywords, i)
                       /\ MeetsOwnMinimum(raw_keywords[i])
           /\ \A o1, o2 \in 1..Len(out) :
                 o1 # o2 => KeywordTextOf[out[o1].keyword]
                               # KeywordTextOf[out[o2].keyword]

\* C30 witness: a verified record below 100 searches and an estimated
\* record of the same normalized term above 5000; the function returned a
\* list (of another term), and the term is not in it.
C30_Witness ==
    /\ dd_variant = "main" /\ dd_pc = "once" /\ dd_once.status = "ok"
    /\ \E i, j \in 1..Len(raw_keywords) :
          /\ IsReal(raw_keywords[i]) /\ raw_keywords[i].search_volume < 100
          /\ IsEstimated(raw_keywords[j]) /\ raw_keywords[j].search_volume >= 5000
          /\ KeywordTextOf[raw_keywords[j].keyword] = KeywordTextOf[raw_keywords[i].keyword]
          /\ HighestPriorityRecord(raw_keywords, i)
          /\ \A o \in 1..Len(dd_once.keywords) :
                KeywordTextOf[dd_once.keywords[o].keyword]
                    # KeywordTextOf[raw_keywords[i].keyword]

============================================================================
